---- MODULE Spec2Model ----
(***************************************************************************)
(* A model of the trader engine of nofx: the decision validator, the       *)
(* execution sequencer, the per-trader cycle, the OKX exchange adapter's   *)
(* read cache, and the Run / Stop lifecycle with its drawdown monitor.     *)
(*                                                                         *)
(* Specifications:                                                         *)
(*   SpecSort      sortDecisionsByPriority as a pure function              *)
(*   SpecValidate  validateDecision / validateDecisions as pure functions  *)
(*   SpecCycle     AutoTrader.runCycle: LLM answer, validation, sorting,   *)
(*                 serial execution, journal record                        *)
(*   SpecAdapter   OKXTrader: GetBalance / GetPositions caches and the     *)
(*                 mutating calls, against a venue                         *)
(*   SpecLife      AutoTrader.Run / Stop / startDrawdownMonitor as         *)
(*                 concurrent goroutines                                   *)
(*   SpecMonitor   AutoTrader.checkPositionDrawdown and its peak cache     *)
(*   SpecSync      NewAutoTrader and AutoTrader.autoSyncBalanceIfNeeded    *)
(*   SpecGateway   Client.CallWithMessages: attempts, pauses, and          *)
(*                 isRetryableError                                        *)
(*   SpecExtract   extractDecisions on the text of an LLM response         *)
(*   SpecTrack     the engine's duplicate-position check on open and its   *)
(*                 positionFirstSeenTime map                               *)
(*   SpecQuantity  OKXTrader.FormatQuantity, and CloseLong / CloseShort    *)
(*                 called with quantity 0                                  *)
(*   SpecOpen      OKXTrader.OpenLong / OpenShort: the margin check and    *)
(*                 the validation of stop-loss and take-profit             *)
(*   SpecUpdate    AutoTrader.executeUpdateStopLossWithRecord and          *)
(*                 executeUpdateTakeProfitWithRecord against the venue's   *)
(*                 pending orders                                          *)
(*   SpecSelect    fetchMarketDataForContext: the symbols a cycle fetches  *)
(*                 market data for                                         *)
(*   SpecHistory   buildTradingContext: the decision records handed to     *)
(*                 the LLM as history                                      *)
(*   SpecRequest   OKXTrader.makeRequest: attempts, pauses, and what the   *)
(*                 venue does with a place-order request                   *)
(*   SpecOpenVenue OKXTrader.OpenLong / OpenShort against the venue's      *)
(*                 orders and leverage of the symbol                       *)
(*   SpecPartial   AutoTrader.executePartialCloseWithRecord against the    *)
(*                 venue's position and protection orders                  *)
(*   SpecStreams   CombinedStreamsClient: Connect, the reader and          *)
(*                 heartbeat goroutines, handleReconnect and Close         *)
(***************************************************************************)
EXTENDS Integers, Sequences, FiniteSets, TLC

(***************************************************************************)
(* Bounds of the model.                                                    *)
(***************************************************************************)
\* longest decision list given to sortDecisionsByPriority in SpecSort
MaxLen == 3
\* longest decision list the LLM returns in one cycle of SpecCycle
MaxDecisions == 2
\* number of cycles one behaviour of SpecCycle runs
MaxCycles == 2
\* largest configured leverage ceiling
MaxLeverage == 2
\* largest quantity of one position at the venue in SpecAdapter
MaxQty == 2
\* wall-clock seconds one behaviour of SpecAdapter, or of SpecTrack, covers
MaxTime == 15
\* seconds the clock of SpecAdapter advances in one step
TimeStep == 5
\* number of calls of Run, and of Stop, in one behaviour of SpecLife
MaxRuns == 2
MaxStops == 2
\* number of cycles one behaviour of SpecHistory runs
MaxHistory == 7
\* longest candidate list handed to fetchMarketDataForContext in SpecSelect
MaxCandidates == 32
\* minutes one behaviour of SpecSync covers, and minutes per step of its clock
MaxSyncTime == 20
SyncStep == 5

VARIABLES
    \* ---- SpecSort
    sortPc,            \* "input" | "sorted"
    sortIn,            \* the list handed to sortDecisionsByPriority
    sortOut,           \* the list it returned
    \* ---- SpecValidate
    valPc,             \* "input" | "validated"
    valDecision,       \* the decision handed to validateDecision
    valConfig,         \* [BTCETHLeverage, AltcoinLeverage]
    valResult,         \* "" (nil error) or the kind of error returned
    \* ---- SpecCycle
    cyclePc,           \* "idle" | "executing" | "returning"
    callCount,         \* at.callCount
    llmDecisions,      \* decision.Decisions as returned to runCycle
    cycleError,        \* how the cycle ended early: "" when it did not
    sortedDecisions,   \* runCycle's sortedDecisions
    execIdx,           \* index of the next decision of the range loop
    executed,          \* decisions handed to executeDecisionWithRecord, in order
    record,            \* the cycle's logger.DecisionRecord
    journal,           \* what decisionLogger.LogDecision wrote, one entry per call
    \* ---- SpecAdapter
    now,               \* time.Now(), in seconds
    venuePos,          \* the venue's long position per symbol (quantity)
    venueOrders,       \* the venue's pending protective orders per symbol
    cachedBalance,     \* t.cachedBalance
    balanceCacheTime,  \* t.balanceCacheTime
    cachedPositions,   \* t.cachedPositions
    positionsCacheTime, \* t.positionsCacheTime
    adLast,            \* the adapter call that returned last, and what it returned
    balDirty,          \* history: a mutation succeeded since cachedBalance was filled
    posDirty,          \* history: a mutation succeeded since cachedPositions was filled
    \* ---- SpecLife
    isRunning,         \* at.isRunning
    stopMonitorCh,     \* at.stopMonitorCh: "open" | "closed"
    monitorWg,         \* counter of at.monitorWg
    runPc,             \* per call of Run: where the goroutine executing it is
    monPc,             \* per call of Run: where the monitor goroutine it started is
    stopPc,            \* per call of Stop: where the goroutine executing it is
    crashed,           \* the process died of an unrecovered panic
    stopRequested,     \* history: Stop was called and Run has not been called since
    quietStop,         \* history, per call of Stop: it was called on a stopped
                       \* trader and overlapped no other call of Run or Stop
    properStart,       \* history: every call of Run so far was made on a stopped
                       \* trader, no call of Stop being in progress
    \* ---- SpecMonitor
    mPos,              \* the venue's position per (symbol, side): open, return in %
    peakPnLCache,      \* at.peakPnLCache: symbol -> peak return in %
    lifePeak,          \* history, per (symbol, side): the highest return the
                       \* monitor observed since the position was opened
    mLog,              \* history: what the last checkPositionDrawdown did, one
                       \* entry per position it visited
    \* ---- SpecSync
    syncPc,            \* "new" | "rejected" | "ready": NewAutoTrader's outcome
    syncNow,           \* time.Now(), in minutes
    initialBalance,    \* at.initialBalance
    lastBalanceSyncTime, \* at.lastBalanceSyncTime
    database,          \* at.database: "nil" | "store"
    storeBalance,      \* the initial balance the configuration store holds
    syncLast,          \* history: the last call of autoSyncBalanceIfNeeded
    \* ---- SpecGateway
    gwPc,              \* "idle" | "attempt" | "sleeping" | "returned"
    gwAttempt,         \* the loop variable attempt of CallWithMessages
    gwLog,             \* history: the attempts of the call, each with the
                       \* backend's answer and what the gateway made of it
    gwWaits,           \* history: the pauses of the call, in seconds
    gwReturn,          \* what CallWithMessages returned
    \* ---- SpecExtract
    exPc,              \* "idle" | "received" | "extracted"
    exText,            \* the response text, as its tokens
    exResult,          \* what extractDecisions returned: (decisions, err)
    \* ---- SpecTrack
    trkNow,            \* time.Now(), in seconds
    trkVenue,          \* the venue's position per side: its quantity
    trkCache,          \* the adapter's cachedPositions: the sides it lists
    trkCacheTime,      \* the adapter's positionsCacheTime
    positionFirstSeenTime, \* at.positionFirstSeenTime, per side
    trkLast,           \* history: the last open, whether the venue held a
                       \* position of its side, and whether an order was placed
    trkLifeFirst,      \* history, per side: the first time the engine wrote
                       \* for the position the venue holds now
    trkCyclesGone,     \* history, per side: cycles run since the venue's
                       \* position disappeared (2 stands for more)
    \* ---- SpecQuantity
    qtyCall,           \* the call of FormatQuantity or Close* in progress
    qtyResult,         \* what it returned, and the order it submitted
    \* ---- SpecOpen
    opnCall,           \* the call of OpenLong or OpenShort in progress
    opnResult,         \* the error it returned; whether it sent the order
    \* ---- SpecUpdate
    updPos,            \* the venue's position of the symbol: its side
    updOrders,         \* the venue's pending orders of the symbol, per ordType
    updLast,           \* history: the last update action, the orders it
                       \* found, and the requests it sent
    \* ---- SpecSelect
    selLast,           \* the last call of fetchMarketDataForContext: its
                       \* positions, candidates and symbolSet
    \* ---- SpecHistory
    histCallCount,     \* at.callCount
    histRecords,       \* the decision logger's records: the cycle numbers
    histLast,          \* history: the last cycle, the records it found and
                       \* the history it selected
    \* ---- SpecRequest
    reqCall,           \* the call of makeRequest in progress: its path and the
                       \* number of its current attempt
    reqLog,            \* history: what each attempt of the call met
    reqWaits,          \* history: the seconds slept after each attempt
    reqOrders,         \* the orders the venue has placed for the call
    reqReturn,         \* what the call returned
    \* ---- SpecOpenVenue
    ovOrders,          \* the venue's pending and protection orders of the symbol:
                       \* their kinds
    ovLeverage,        \* the venue's configured leverage of the symbol, per posSide
    ovLast,            \* history: the last open call, the orders and leverage it
                       \* found, and the error it returned
    \* ---- SpecPartial
    pcPos,             \* the venue's position of the symbol: its side and amount
    pcOrders,          \* the venue's protection orders of the symbol: their kinds
    pcLast,            \* history: the last partial_close, the position and orders
                       \* it found, and the error it returned
    \* ---- SpecStreams
    csConn,            \* c.conn: the number of the connection, 0 for nil
    csDialed,          \* the connections dialed so far
    csUp,              \* per connection: whether it still carries frames
    csStreams,         \* per connection: the streams subscribed on it
    subscribers,       \* c.subscribers: the streams that have a channel
    csChans,           \* per stream: the state of its subscriber channel
    done,              \* c.done: "open" | "closed"
    reconnect,         \* c.reconnect
    csReader,          \* per connection: the readMessages goroutine its Connect
                       \* started: its position, the connection it reads and the
                       \* channel it has picked
    csHeart,           \* per connection: the startHeartbeat goroutine its Connect
                       \* started: its position
    csClosePc,         \* the call of Close: "idle" | "locking" | "returned"
    csSentOnClosed     \* history: a send was made on a closed subscriber channel

sortVars  == <<sortPc, sortIn, sortOut>>
valVars   == <<valPc, valDecision, valConfig, valResult>>
cycleVars == <<cyclePc, callCount, llmDecisions, cycleError, sortedDecisions,
               execIdx, executed, record, journal>>
adapterVars == <<now, venuePos, venueOrders, cachedBalance, balanceCacheTime,
                 cachedPositions, positionsCacheTime, adLast, balDirty, posDirty>>
lifeVars  == <<isRunning, stopMonitorCh, monitorWg, runPc, monPc, stopPc,
               crashed, stopRequested, quietStop, properStart>>
monitorVars == <<mPos, peakPnLCache, lifePeak, mLog>>
syncVars  == <<syncPc, syncNow, initialBalance, lastBalanceSyncTime, database,
               storeBalance, syncLast>>
gwVars    == <<gwPc, gwAttempt, gwLog, gwWaits, gwReturn>>
exVars    == <<exPc, exText, exResult>>
trkVars   == <<trkNow, trkVenue, trkCache, trkCacheTime, positionFirstSeenTime,
               trkLast, trkLifeFirst, trkCyclesGone>>
qtyVars   == <<qtyCall, qtyResult>>
opnVars   == <<opnCall, opnResult>>
updVars   == <<updPos, updOrders, updLast>>
orderVars == <<qtyVars, opnVars, updVars>>
selVars   == <<selLast>>
histVars  == <<histCallCount, histRecords, histLast>>
reqVars == <<reqCall, reqLog, reqWaits, reqOrders, reqReturn>>
ovVars == <<ovOrders, ovLeverage, ovLast>>
pcVars == <<pcPos, pcOrders, pcLast>>
csVars == <<csConn, csDialed, csUp, csStreams, subscribers, csChans, done, reconnect, csReader, csHeart, csClosePc, csSentOnClosed>>
lateVars == <<reqVars, ovVars, pcVars, csVars>>
notRequest ==
  <<sortVars, valVars, cycleVars, adapterVars, lifeVars, monitorVars,
    syncVars, gwVars, exVars, trkVars, orderVars, selVars, histVars,
    ovVars,
    pcVars,
    csVars>>
notOpenVenue ==
  <<sortVars, valVars, cycleVars, adapterVars, lifeVars, monitorVars,
    syncVars, gwVars, exVars, trkVars, orderVars, selVars, histVars,
    reqVars,
    pcVars,
    csVars>>
notPartial ==
  <<sortVars, valVars, cycleVars, adapterVars, lifeVars, monitorVars,
    syncVars, gwVars, exVars, trkVars, orderVars, selVars, histVars,
    reqVars,
    ovVars,
    csVars>>
notStreams ==
  <<sortVars, valVars, cycleVars, adapterVars, lifeVars, monitorVars,
    syncVars, gwVars, exVars, trkVars, orderVars, selVars, histVars,
    reqVars,
    ovVars,
    pcVars>>
lastVars  == <<selVars, histVars, lateVars>>
moreVars  == <<monitorVars, syncVars, gwVars, exVars, trkVars, orderVars,
               lastVars>>
vars == <<sortVars, valVars, cycleVars, adapterVars, lifeVars, moreVars>>

(***************************************************************************)
(* Helpers.                                                                *)
(***************************************************************************)
BoundedSeq(S, n) == UNION {[1..k -> S] : k \in 0..n}

(***************************************************************************)
(* decision.Decision                                                       *)
(***************************************************************************)
OpenActions   == {"open_long", "open_short"}
CloseActions  == {"close_long", "close_short", "partial_close"}
UpdateActions == {"update_stop_loss", "update_take_profit"}
IdleActions   == {"hold", "wait"}
Actions == CloseActions \cup UpdateActions \cup OpenActions \cup IdleActions
\* an action string outside the vocabulary, as an LLM may produce
UnknownAction == "buy"

Decision(a, s, lev, size, nsl, ntp, pct) ==
    [action |-> a, symbol |-> s, leverage |-> lev, position_size_usd |-> size,
     new_stop_loss |-> nsl, new_take_profit |-> ntp, close_percentage |-> pct]

(***************************************************************************)
(* sortDecisionsByPriority (mcp/client.go, package trader)                 *)
(***************************************************************************)
getActionPriority_SwappedRanks(action) ==
    CASE action \in {"close_long", "close_short", "partial_close"} -> 3
      [] action \in {"update_stop_loss", "update_take_profit"} -> 2
      [] action \in {"open_long", "open_short"} -> 1
      [] action \in {"hold", "wait"} -> 4
      [] OTHER -> 999

getActionPriority(action) ==
    CASE action \in {"close_long", "close_short", "partial_close"} -> 1
      [] action \in {"update_stop_loss", "update_take_profit"} -> 2
      [] action \in {"open_long", "open_short"} -> 3
      [] action \in {"hold", "wait"} -> 4
      [] OTHER -> 999

\* sorted[i], sorted[j] = sorted[j], sorted[i]
SwapAt(s, i, j) == [s EXCEPT ![i] = s[j], ![j] = s[i]]

\* for j := i + 1; j < len(sorted); j++ { if pri(sorted[i]) > pri(sorted[j]) { swap } }
RECURSIVE SortInner(_, _, _)
SortInner(s, i, j) ==
    IF j > Len(s) THEN s
    ELSE SortInner(IF getActionPriority(s[i].action) > getActionPriority(s[j].action)
                   THEN SwapAt(s, i, j) ELSE s,
                   i, j + 1)

\* for i := 0; i < len(sorted)-1; i++ { ... }
RECURSIVE SortOuter(_, _)
SortOuter(s, i) ==
    IF i > Len(s) - 1 THEN s
    ELSE SortOuter(SortInner(s, i, i + 1), i + 1)

sortDecisionsByPriority(decisions) ==
    IF Len(decisions) <= 1 THEN decisions ELSE SortOuter(decisions, 1)

(***************************************************************************)
(* SpecSort: the sort applied to every list of at most MaxLen decisions.   *)
(* Only action and symbol matter to the sort; the symbol tells two         *)
(* decisions of one action apart.                                          *)
(***************************************************************************)
SortSymbols == {"BTCUSDT", "SOLUSDT"}
SortDecisions == {Decision(a, s, 0, 0, 0, 0, 0) : a \in Actions, s \in SortSymbols}

SortIdle == sortPc = "input" /\ sortIn = <<>> /\ sortOut = <<>>

ApplySort ==
    /\ sortPc = "input"
    /\ sortOut' = sortDecisionsByPriority(sortIn)
    /\ sortPc' = "sorted"
    /\ UNCHANGED <<sortIn, valVars, cycleVars, adapterVars, lifeVars, moreVars>>

(***************************************************************************)
(* validateDecision / validateDecisions (market/okx_client.go, package     *)
(* decision).  The result is "" for a nil error, else the kind of error.   *)
(***************************************************************************)
validateDecision_AllowsZeroLeverage(d, btcEthLeverage, altcoinLeverage) ==
    LET maxLeverage == IF d.symbol = "BTCUSDT" \/ d.symbol = "ETHUSDT"
                       THEN btcEthLeverage ELSE altcoinLeverage
    IN  IF d.action \notin Actions THEN "action"
        ELSE IF d.action \in OpenActions
                /\ (d.leverage < 0 \/ d.leverage > maxLeverage) THEN "leverage"
        ELSE IF d.action = "update_stop_loss" /\ d.new_stop_loss <= 0 THEN "new_stop_loss"
        ELSE IF d.action = "update_take_profit" /\ d.new_take_profit <= 0 THEN "new_take_profit"
        ELSE IF d.action = "partial_close"
                /\ (d.close_percentage <= 0 \/ d.close_percentage > 100) THEN "close_percentage"
        ELSE ""

validateDecision(d, btcEthLeverage, altcoinLeverage) ==
    LET maxLeverage == IF d.symbol = "BTCUSDT" \/ d.symbol = "ETHUSDT"
                       THEN btcEthLeverage ELSE altcoinLeverage
    IN  IF d.action \notin Actions THEN "action"
        ELSE IF d.action \in OpenActions
                /\ (d.leverage <= 0 \/ d.leverage > maxLeverage) THEN "leverage"
        ELSE IF d.action = "update_stop_loss" /\ d.new_stop_loss <= 0 THEN "new_stop_loss"
        ELSE IF d.action = "update_take_profit" /\ d.new_take_profit <= 0 THEN "new_take_profit"
        ELSE IF d.action = "partial_close"
                /\ (d.close_percentage <= 0 \/ d.close_percentage > 100) THEN "close_percentage"
        ELSE ""

\* for i, decision := range decisions { if err := validateDecision(...) { return err } }
RECURSIVE ValidateFrom(_, _, _, _)
ValidateFrom(decisions, i, btcEthLeverage, altcoinLeverage) ==
    IF i > Len(decisions) THEN ""
    ELSE LET err == validateDecision(decisions[i], btcEthLeverage, altcoinLeverage)
         IN  IF err # "" THEN err
             ELSE ValidateFrom(decisions, i + 1, btcEthLeverage, altcoinLeverage)

validateDecisions_FirstOnly(decisions, btcEthLeverage, altcoinLeverage) ==
    IF Len(decisions) = 0 THEN ""
    ELSE validateDecision(decisions[1], btcEthLeverage, altcoinLeverage)

validateDecisions(decisions, btcEthLeverage, altcoinLeverage) ==
    ValidateFrom(decisions, 1, btcEthLeverage, altcoinLeverage)

(***************************************************************************)
(* SpecValidate: validateDecision applied to one decision, for every       *)
(* configured pair of leverage ceilings.                                   *)
(***************************************************************************)
ValSymbols   == {"BTCUSDT", "ETHUSDT", "SOLUSDT"}
ValLeverages == -1 .. MaxLeverage + 1
ValSizes     == {-5, 0, 100}
ValPrices    == {-1, 0, 50}
ValPercents  == {-1, 0, 50, 100, 101}

ValDecisions ==
    {Decision(a, s, l, p, 0, 0, 0) :
        a \in OpenActions, s \in ValSymbols, l \in ValLeverages, p \in ValSizes}
    \cup {Decision("update_stop_loss", s, 0, 0, x, 0, 0) : s \in ValSymbols, x \in ValPrices}
    \cup {Decision("update_take_profit", s, 0, 0, 0, x, 0) : s \in ValSymbols, x \in ValPrices}
    \cup {Decision("partial_close", s, 0, 0, 0, 0, x) : s \in ValSymbols, x \in ValPercents}
    \cup {Decision(a, s, 0, 0, 0, 0, 0) :
            a \in {"close_long", "close_short", "hold", "wait", UnknownAction},
            s \in ValSymbols}

ValConfigs == [BTCETHLeverage : 1..MaxLeverage, AltcoinLeverage : 1..MaxLeverage]

NoDecision == Decision("wait", "ALL", 0, 0, 0, 0, 0)

ValIdle ==
    /\ valPc = "input"
    /\ valDecision = NoDecision
    /\ valConfig = [BTCETHLeverage |-> 1, AltcoinLeverage |-> 1]
    /\ valResult = ""

ApplyValidate ==
    /\ valPc = "input"
    /\ valResult' = validateDecision(valDecision, valConfig.BTCETHLeverage,
                                     valConfig.AltcoinLeverage)
    /\ valPc' = "validated"
    /\ UNCHANGED <<valDecision, valConfig, sortVars, cycleVars, adapterVars, lifeVars, moreVars>>

(***************************************************************************)
(* GetFullDecisionWithCustomPrompt / parseFullDecisionResponse             *)
(* (market/okx_client.go, package decision).  The answer of the LLM        *)
(* backend is an input: the call fails, the text does not parse, the text  *)
(* holds no JSON array (extractDecisions then returns one wait decision),  *)
(* or the text parses into a list of decisions.                            *)
(***************************************************************************)
Nil == [nil |-> TRUE]

FallbackDecision == Decision("wait", "ALL", 0, 0, 0, 0, 0)

\* extractDecisions: (decisions, parse error?)
extractDecisions(resp) ==
    CASE resp.kind = "bad_json" -> [decisions |-> <<>>, err |-> "parse"]
      [] resp.kind = "no_json"  -> [decisions |-> <<FallbackDecision>>, err |-> ""]
      [] OTHER                  -> [decisions |-> resp.list, err |-> ""]

\* parseFullDecisionResponse: (*FullDecision, error)
parseFullDecisionResponse(resp, btcEthLeverage, altcoinLeverage) ==
    LET ex == extractDecisions(resp)
        verr == validateDecisions(ex.decisions, btcEthLeverage, altcoinLeverage)
    IN  IF ex.err # ""
        THEN [decision |-> [Decisions |-> <<>>], err |-> "parse"]
        ELSE IF verr # ""
        THEN [decision |-> [Decisions |-> ex.decisions], err |-> "validation"]
        ELSE [decision |-> [Decisions |-> ex.decisions], err |-> ""]

\* GetFullDecisionWithCustomPrompt: (*FullDecision, error)
GetFullDecisionWithCustomPrompt(resp, btcEthLeverage, altcoinLeverage) ==
    IF resp.kind = "call_error"
    THEN [decision |-> Nil, err |-> "call"]
    ELSE parseFullDecisionResponse(resp, btcEthLeverage, altcoinLeverage)

(***************************************************************************)
(* AutoTrader.runCycle (mcp/client.go, package trader)                     *)
(***************************************************************************)
\* the leverage ceilings of the trader's configuration
CycleConfig == [BTCETHLeverage |-> MaxLeverage, AltcoinLeverage |-> 1]

CycleSymbols == {"BTCUSDT", "SOLUSDT"}
CycleDecisions ==
    {Decision(a, s, l, p, 0, 0, 0) :
        a \in OpenActions, s \in CycleSymbols, l \in {0, MaxLeverage}, p \in {0, 100}}
    \cup {Decision("update_stop_loss", "BTCUSDT", 0, 0, x, 0, 0) : x \in {0, 50}}
    \cup {Decision("update_take_profit", "BTCUSDT", 0, 0, 0, x, 0) : x \in {0, 50}}
    \cup {Decision("partial_close", "BTCUSDT", 0, 0, 0, 0, x) : x \in {0, 50}}
    \cup {Decision(a, "BTCUSDT", 0, 0, 0, 0, 0) :
            a \in {"close_long", "close_short", "hold", "wait", UnknownAction}}

LLMResponses ==
    {[kind |-> k, list |-> <<>>] : k \in {"call_error", "bad_json", "no_json"}}
    \cup {[kind |-> "decisions", list |-> l] : l \in BoundedSeq(CycleDecisions, MaxDecisions)}

\* record := &logger.DecisionRecord{ExecutionLog: []string{}, Success: true}
NewRecord == [Success |-> TRUE, ErrorMessage |-> "", DecisionJSON |-> <<>>, Decisions |-> <<>>]

\* the record as runCycle has filled it when GetFullDecision returned (decision, err)
RecordWithDecision(rec, decision) ==
    IF decision # Nil /\ Len(decision.Decisions) > 0
    THEN [rec EXCEPT !.DecisionJSON = decision.Decisions]
    ELSE rec

FailedRecord(rec, msg) == [rec EXCEPT !.Success = FALSE, !.ErrorMessage = msg]

\* the record after one iteration of the execution loop: the per-action entry
\* is appended whether the action failed or not, and a failure marks the
\* whole record failed
RecordAction_SuccessesOnly(rec, actionRecord) ==
    IF actionRecord.Success THEN [rec EXCEPT !.Decisions = Append(@, actionRecord)]
    ELSE [rec EXCEPT !.Success = FALSE]

RecordAction(rec, actionRecord) ==
    [rec EXCEPT !.Success = IF actionRecord.Success THEN @ ELSE FALSE,
                !.Decisions = Append(@, actionRecord)]

\* where the loop of Run is after runCycle returned err: the error is only
\* logged, and the loop waits for the next tick
AfterCycle_StopsOnError(err) == IF err = "" THEN "idle" ELSE "stopped"

AfterCycle(err) == "idle"

\* at.decisionLogger.LogDecision(record): the journal is an append-only sink
\* outside the engine; the model keeps, per written record, its success flag,
\* its error message and the number of its per-action entries.  runCycle
\* never assigns record.CycleNumber: the journal numbers the record it
\* writes, one more than the record before it.
LogDecision(log, rec) ==
    Append(log, [CycleNumber |-> Len(log) + 1,
                 Success |-> rec.Success, ErrorMessage |-> rec.ErrorMessage,
                 Actions |-> Len(rec.Decisions)])

\* an early exit of runCycle: the record is marked failed with the error's
\* message and written before the return
AbortCycle_Unlogged(log, rec, msg) == log

AbortCycle(log, rec, msg) == LogDecision(log, FailedRecord(rec, msg))

\* the errors executeDecisionWithRecord can return for a decision: the exchange
\* calls of an open, close, update or partial close may fail; hold and wait
\* return nil; any other action is an error.
ExecErrors(d) ==
    IF d.action \in IdleActions THEN {""}
    ELSE IF d.action \in Actions THEN {"", "exchange"}
    ELSE {"unknown action"}

CycleIdle ==
    /\ cyclePc = "idle"
    /\ callCount = 0
    /\ llmDecisions = <<>>
    /\ cycleError = ""
    /\ sortedDecisions = <<>>
    /\ execIdx = 1
    /\ executed = <<>>
    /\ record = NewRecord
    /\ journal = <<>>

\* runCycle from its entry to the first executeDecisionWithRecord, or to the
\* LogDecision of an early return.  stopUntil is never set by the engine, so the pause branch
\* (time.Now().Before(at.stopUntil)) is not taken.
CycleBegin(ctxOk, resp) ==
    /\ cyclePc = "idle"
    /\ callCount < MaxCycles
    /\ callCount' = callCount + 1
    /\ executed' = <<>>
    /\ execIdx' = 1
    /\ LET full == GetFullDecisionWithCustomPrompt(resp, CycleConfig.BTCETHLeverage,
                                                   CycleConfig.AltcoinLeverage)
           rec  == RecordWithDecision(NewRecord, full.decision)
       IN  IF ~ctxOk
           THEN /\ record' = FailedRecord(NewRecord, "context")
                /\ journal' = AbortCycle(journal, NewRecord, "context")
                /\ cycleError' = "context"
                /\ llmDecisions' = <<>>
                /\ sortedDecisions' = <<>>
                /\ cyclePc' = "returning"
           ELSE IF full.err # "" \/ full.decision = Nil
           THEN /\ record' = FailedRecord(rec, full.err)
                /\ journal' = AbortCycle(journal, rec, full.err)
                /\ cycleError' = full.err
                /\ llmDecisions' = IF full.decision = Nil THEN <<>>
                                   ELSE full.decision.Decisions
                /\ sortedDecisions' = <<>>
                /\ cyclePc' = "returning"
           ELSE IF Len(full.decision.Decisions) = 0
           THEN /\ record' = FailedRecord(rec, "empty")
                /\ journal' = AbortCycle(journal, rec, "empty")
                /\ cycleError' = "empty"
                /\ llmDecisions' = <<>>
                /\ sortedDecisions' = <<>>
                /\ cyclePc' = "returning"
           ELSE /\ record' = rec
                /\ journal' = journal
                /\ cycleError' = ""
                /\ llmDecisions' = full.decision.Decisions
                /\ sortedDecisions' = sortDecisionsByPriority(full.decision.Decisions)
                /\ cyclePc' = "executing"
    /\ UNCHANGED <<sortVars, valVars, adapterVars, lifeVars, moreVars>>

\* one iteration of `for _, d := range sortedDecisions`
ExecuteDecision(err) ==
    /\ cyclePc = "executing"
    /\ execIdx <= Len(sortedDecisions)
    /\ LET d == sortedDecisions[execIdx]
           actionRecord == [Action |-> d.action, Symbol |-> d.symbol,
                            Success |-> err = "", Error |-> err]
       IN  /\ err \in ExecErrors(d)
           /\ executed' = Append(executed, d)
           /\ record' = RecordAction(record, actionRecord)
    /\ execIdx' = execIdx + 1
    /\ UNCHANGED <<cyclePc, callCount, llmDecisions, cycleError, sortedDecisions,
                   journal, sortVars, valVars, adapterVars, lifeVars, moreVars>>

\* at.decisionLogger.LogDecision(record); return nil
CycleEnd ==
    /\ cyclePc = "executing"
    /\ execIdx > Len(sortedDecisions)
    /\ journal' = LogDecision(journal, record)
    /\ cyclePc' = "returning"
    /\ UNCHANGED <<callCount, llmDecisions, cycleError, sortedDecisions, execIdx,
                   executed, record, sortVars, valVars, adapterVars, lifeVars, moreVars>>

\* runCycle returns to Run: its locals (record, decision, sortedDecisions)
\* are gone
CycleReturn ==
    /\ cyclePc = "returning"
    /\ cyclePc' = AfterCycle(cycleError)
    /\ llmDecisions' = <<>>
    /\ cycleError' = ""
    /\ sortedDecisions' = <<>>
    /\ execIdx' = 1
    /\ executed' = <<>>
    /\ record' = NewRecord
    /\ UNCHANGED <<callCount, journal, sortVars, valVars, adapterVars, lifeVars, moreVars>>

(***************************************************************************)
(* The exchange adapter, OKXTrader, against a venue.  The venue holds the  *)
(* account's long positions and its pending protective orders; a unit of   *)
(* quantity costs one unit of margin.  Each action is one call of an       *)
(* adapter method, with the venue's answers to its requests as inputs.     *)
(* Quantities are whole numbers, so FormatQuantity leaves them unchanged.  *)
(***************************************************************************)
\* t.cacheDuration, in seconds
CacheDuration == 10
AdSymbols == {"BTCUSDT"}
\* the account's funds at the venue
Funds == MaxQty

Min(a, b) == IF a < b THEN a ELSE b

\* a nil slice of positions, a nil balance map
NilList == [nil |-> TRUE, list |-> {}]
NilBalance == [nil |-> TRUE, availableBalance |-> 0]

\* GET /api/v5/account/positions as GetPositions parses it: entries with
\* pos = 0 are skipped, and `var result` stays nil when nothing is appended
VenuePositions ==
    LET held == {s \in AdSymbols : venuePos[s] > 0}
    IN  [nil  |-> held = {},
         list |-> {[symbol |-> s, side |-> "long", positionAmt |-> venuePos[s]] :
                   s \in held}]

RECURSIVE SumPos(_, _)
SumPos(pos, S) ==
    IF S = {} THEN 0
    ELSE LET s == CHOOSE x \in S : TRUE IN pos[s] + SumPos(pos, S \ {s})

\* GET /api/v5/account/balance as GetBalance parses it
VenueBalance ==
    [nil |-> FALSE, availableBalance |-> Funds - SumPos(venuePos, AdSymbols)]

\* The body of GetBalance: what it returns and what it leaves in the cache.
\* dirty is the history flag of the cache as the call finds it.
BalanceRead(dirty, apiOk) ==
    IF ~cachedBalance.nil /\ now - balanceCacheTime < CacheDuration
    THEN [ok |-> TRUE, cached |-> TRUE, value |-> cachedBalance,
          cache |-> cachedBalance, cacheTime |-> balanceCacheTime, dirty |-> dirty]
    ELSE IF ~apiOk
    THEN [ok |-> FALSE, cached |-> FALSE, value |-> NilBalance,
          cache |-> cachedBalance, cacheTime |-> balanceCacheTime, dirty |-> dirty]
    ELSE [ok |-> TRUE, cached |-> FALSE, value |-> VenueBalance,
          cache |-> VenueBalance, cacheTime |-> now, dirty |-> FALSE]

\* The body of GetPositions
PositionsRead(dirty, apiOk) ==
    IF ~cachedPositions.nil /\ now - positionsCacheTime < CacheDuration
    THEN [ok |-> TRUE, cached |-> TRUE, value |-> cachedPositions,
          cache |-> cachedPositions, cacheTime |-> positionsCacheTime, dirty |-> dirty]
    ELSE IF ~apiOk
    THEN [ok |-> FALSE, cached |-> FALSE, value |-> NilList,
          cache |-> cachedPositions, cacheTime |-> positionsCacheTime, dirty |-> dirty]
    ELSE [ok |-> TRUE, cached |-> FALSE, value |-> VenuePositions,
          cache |-> VenuePositions, cacheTime |-> now, dirty |-> FALSE]

Returned(op, ok, cached, positions, balance) ==
    [op |-> op, ok |-> ok, cached |-> cached, positions |-> positions,
     balance |-> balance]

AdapterIdle ==
    /\ now = 0
    /\ venuePos = [s \in AdSymbols |-> 0]
    /\ venueOrders = [s \in AdSymbols |-> {}]
    /\ cachedBalance = NilBalance
    /\ balanceCacheTime = 0
    /\ cachedPositions = NilList
    /\ positionsCacheTime = 0
    /\ adLast = Returned("none", TRUE, FALSE, NilList, NilBalance)
    /\ balDirty = FALSE
    /\ posDirty = FALSE

notAdapter == <<sortVars, valVars, cycleVars, lifeVars, moreVars>>

AdvanceTime ==
    /\ now + TimeStep <= MaxTime
    /\ now' = now + TimeStep
    /\ UNCHANGED <<venuePos, venueOrders, cachedBalance, balanceCacheTime,
                   cachedPositions, positionsCacheTime, adLast, balDirty,
                   posDirty, notAdapter>>

GetBalance(apiOk) ==
    LET r == BalanceRead(balDirty, apiOk)
    IN  /\ cachedBalance' = r.cache
        /\ balanceCacheTime' = r.cacheTime
        /\ balDirty' = r.dirty
        /\ adLast' = Returned("GetBalance", r.ok, r.cached, NilList, r.value)
        /\ UNCHANGED <<now, venuePos, venueOrders, cachedPositions,
                       positionsCacheTime, posDirty, notAdapter>>

GetPositions(apiOk) ==
    LET r == PositionsRead(posDirty, apiOk)
    IN  /\ cachedPositions' = r.cache
        /\ positionsCacheTime' = r.cacheTime
        /\ posDirty' = r.dirty
        /\ adLast' = Returned("GetPositions", r.ok, r.cached, r.value, NilBalance)
        /\ UNCHANGED <<now, venuePos, venueOrders, cachedBalance,
                       balanceCacheTime, balDirty, notAdapter>>

\* CancelAllOrders(symbol): cancel-all-after, or one by one when that fails;
\* no cache is touched
CancelAllOrders(symbol, apiOk) ==
    /\ venueOrders' = IF apiOk THEN [venueOrders EXCEPT ![symbol] = {}]
                      ELSE venueOrders
    /\ balDirty' = (balDirty \/ apiOk)
    /\ posDirty' = (posDirty \/ apiOk)
    /\ adLast' = Returned("CancelAllOrders", apiOk, FALSE, NilList, NilBalance)
    /\ UNCHANGED <<now, venuePos, cachedBalance, balanceCacheTime,
                   cachedPositions, positionsCacheTime, notAdapter>>

\* SetStopLoss / SetTakeProfit: one POST /trade/order; no cache is touched
SetProtective(op, kind, symbol, apiOk) ==
    /\ venueOrders' = IF apiOk THEN [venueOrders EXCEPT ![symbol] = @ \cup {kind}]
                      ELSE venueOrders
    /\ balDirty' = (balDirty \/ apiOk)
    /\ posDirty' = (posDirty \/ apiOk)
    /\ adLast' = Returned(op, apiOk, FALSE, NilList, NilBalance)
    /\ UNCHANGED <<now, venuePos, cachedBalance, balanceCacheTime,
                   cachedPositions, positionsCacheTime, notAdapter>>

SetStopLoss(symbol, apiOk) == SetProtective("SetStopLoss", "sl", symbol, apiOk)

SetTakeProfit(symbol, apiOk) == SetProtective("SetTakeProfit", "tp", symbol, apiOk)

\* CloseLong(symbol, quantity): quantity 0 asks GetPositions (cache included)
\* for the quantity held; the reduce-only market order is filled by the venue
\* only when it holds a long position; the orders of the symbol are cancelled
\* after a fill.  No cache is invalidated.
CloseLong(symbol, quantity, posApiOk, orderOk, cancelOk) ==
    LET r == IF quantity = 0 THEN PositionsRead(posDirty, posApiOk)
             ELSE [ok |-> TRUE, cached |-> FALSE, value |-> NilList,
                   cache |-> cachedPositions, cacheTime |-> positionsCacheTime,
                   dirty |-> posDirty]
        found == {p \in r.value.list : p.symbol = symbol /\ p.side = "long"}
        qty == IF quantity # 0 THEN quantity
               ELSE IF found = {} THEN 0
               ELSE (CHOOSE p \in found : TRUE).positionAmt
        filled == r.ok /\ qty # 0 /\ orderOk /\ venuePos[symbol] > 0
    IN  /\ cachedPositions' = r.cache
        /\ positionsCacheTime' = r.cacheTime
        /\ venuePos' = IF filled
                       THEN [venuePos EXCEPT ![symbol] = @ - Min(qty, @)]
                       ELSE venuePos
        /\ venueOrders' = IF filled /\ cancelOk
                          THEN [venueOrders EXCEPT ![symbol] = {}]
                          ELSE venueOrders
        /\ posDirty' = (filled \/ r.dirty)
        /\ balDirty' = (filled \/ balDirty)
        /\ adLast' = Returned("CloseLong", filled, r.cached, r.value, NilBalance)
        /\ UNCHANGED <<now, cachedBalance, balanceCacheTime, notAdapter>>

\* the protective orders an open attaches: none (stopLoss = takeProfit = 0)
\* or both
Attachments == {{}, {"sl", "tp"}}

\* OpenLong(symbol, quantity, leverage, stopLoss, takeProfit): cancels the
\* symbol's orders, sets the leverage and reads the price (prepOk), reads the
\* balance through GetBalance (cache included) for the margin check, then
\* places the market order with its attached protective orders; the venue
\* fills it when the account really has the margin.  orderOk = FALSE stands
\* for an order the venue rejects and for one the adapter's own check of the
\* protective prices stops.  No cache is invalidated.
OpenLong(symbol, quantity, attach, cancelOk, prepOk, balApiOk, orderOk) ==
    LET r == IF prepOk THEN BalanceRead(balDirty \/ cancelOk, balApiOk)
             ELSE [ok |-> FALSE, cached |-> FALSE, value |-> NilBalance,
                   cache |-> cachedBalance, cacheTime |-> balanceCacheTime,
                   dirty |-> (balDirty \/ cancelOk)]
        placed == r.ok /\ quantity <= r.value.availableBalance
        filled == placed /\ orderOk /\ quantity <= VenueBalance.availableBalance
        kept == IF cancelOk THEN {} ELSE venueOrders[symbol]
    IN  /\ venueOrders' = [venueOrders EXCEPT ![symbol] =
                              IF filled THEN kept \cup attach ELSE kept]
        /\ cachedBalance' = r.cache
        /\ balanceCacheTime' = r.cacheTime
        /\ venuePos' = IF filled THEN [venuePos EXCEPT ![symbol] = @ + quantity]
                       ELSE venuePos
        /\ balDirty' = (filled \/ r.dirty)
        /\ posDirty' = (filled \/ cancelOk \/ posDirty)
        /\ adLast' = Returned("OpenLong", filled, r.cached, NilList, r.value)
        /\ UNCHANGED <<now, cachedPositions, positionsCacheTime, notAdapter>>

(***************************************************************************)
(* The lifecycle of one AutoTrader: calls of Run and of Stop, each in a    *)
(* goroutine of its own, and the drawdown monitor goroutine each Run       *)
(* starts.  A cycle is the span of one call of runCycle.                   *)
(*                                                                         *)
(* at.isRunning is a plain bool written by Stop and read by the loop of    *)
(* Run with no synchronisation between the two: a data race.  The loop's   *)
(* read returns the value in memory or the value its own goroutine wrote   *)
(* (true), whichever the build makes visible.                              *)
(***************************************************************************)
Runs == 1 .. MaxRuns
Stops == 1 .. MaxStops

LifeIdle ==
    /\ isRunning = FALSE
    /\ stopMonitorCh = "open"
    /\ monitorWg = 0
    /\ runPc = [r \in Runs |-> "idle"]
    /\ monPc = [r \in Runs |-> "none"]
    /\ stopPc = [s \in Stops |-> "idle"]
    /\ crashed = FALSE
    /\ stopRequested = FALSE
    /\ quietStop = [s \in Stops |-> FALSE]
    /\ properStart = TRUE

notLife == <<sortVars, valVars, cycleVars, adapterVars, moreVars>>

\* calls of Stop that have begun and not ended
StopsInProgress == {s \in Stops : stopPc[s] \in {"close", "wait"}}

\* Run, first statement: at.isRunning = true
RunCall(r) ==
    /\ ~crashed
    /\ runPc[r] = "idle"
    /\ \A q \in Runs : q < r => runPc[q] # "idle"
    /\ isRunning' = TRUE
    /\ runPc' = [runPc EXCEPT ![r] = "starting"]
    /\ stopRequested' = FALSE
    /\ quietStop' = [s \in Stops |-> quietStop[s] /\ s \notin StopsInProgress]
    /\ properStart' = (properStart /\ ~isRunning /\ StopsInProgress = {})
    /\ UNCHANGED <<stopMonitorCh, monitorWg, monPc, stopPc, crashed, notLife>>

\* Run calls startDrawdownMonitor: monitorWg.Add(1) and the go statement
startDrawdownMonitor(r) ==
    /\ ~crashed
    /\ runPc[r] = "starting"
    /\ monitorWg' = monitorWg + 1
    /\ monPc' = [monPc EXCEPT ![r] = "select"]
    /\ runPc' = [runPc EXCEPT ![r] = "first"]
    /\ UNCHANGED <<isRunning, stopMonitorCh, stopPc, crashed, stopRequested,
                   quietStop, properStart, notLife>>

\* Run creates its ticker and calls runCycle at once
RunFirstCycle(r) ==
    /\ ~crashed
    /\ runPc[r] = "first"
    /\ runPc' = [runPc EXCEPT ![r] = "inCycle"]
    /\ UNCHANGED <<isRunning, stopMonitorCh, monitorWg, monPc, stopPc, crashed,
                   stopRequested, quietStop, properStart, notLife>>

\* runCycle returns to Run
RunCycleDone(r) ==
    /\ ~crashed
    /\ runPc[r] = "inCycle"
    /\ runPc' = [runPc EXCEPT ![r] = "loop"]
    /\ UNCHANGED <<isRunning, stopMonitorCh, monitorWg, monPc, stopPc, crashed,
                   stopRequested, quietStop, properStart, notLife>>

\* for at.isRunning { ... }: the racy read of the flag; Run returns on false
RunLoopCheck(r, seen) ==
    /\ ~crashed
    /\ runPc[r] = "loop"
    /\ seen \in {isRunning, TRUE}
    /\ runPc' = [runPc EXCEPT ![r] = IF seen THEN "select" ELSE "returned"]
    /\ UNCHANGED <<isRunning, stopMonitorCh, monitorWg, monPc, stopPc, crashed,
                   stopRequested, quietStop, properStart, notLife>>

\* select { case <-ticker.C: runCycle() }: the only case of the select
RunTick(r) ==
    /\ ~crashed
    /\ runPc[r] = "select"
    /\ runPc' = [runPc EXCEPT ![r] = "inCycle"]
    /\ UNCHANGED <<isRunning, stopMonitorCh, monitorWg, monPc, stopPc, crashed,
                   stopRequested, quietStop, properStart, notLife>>

\* monitor: case <-ticker.C: checkPositionDrawdown() begins
MonitorTick(m) ==
    /\ ~crashed
    /\ monPc[m] = "select"
    /\ monPc' = [monPc EXCEPT ![m] = "checking"]
    /\ UNCHANGED <<isRunning, stopMonitorCh, monitorWg, runPc, stopPc, crashed,
                   stopRequested, quietStop, properStart, notLife>>

\* monitor: checkPositionDrawdown returns
MonitorChecked(m) ==
    /\ ~crashed
    /\ monPc[m] = "checking"
    /\ monPc' = [monPc EXCEPT ![m] = "select"]
    /\ UNCHANGED <<isRunning, stopMonitorCh, monitorWg, runPc, stopPc, crashed,
                   stopRequested, quietStop, properStart, notLife>>

\* monitor: case <-at.stopMonitorCh: return, with the deferred monitorWg.Done()
MonitorStopped(m) ==
    /\ ~crashed
    /\ monPc[m] = "select"
    /\ stopMonitorCh = "closed"
    /\ monPc' = [monPc EXCEPT ![m] = "exited"]
    /\ monitorWg' = monitorWg - 1
    /\ UNCHANGED <<isRunning, stopMonitorCh, runPc, stopPc, crashed,
                   stopRequested, quietStop, properStart, notLife>>

\* Stop, first statement: at.isRunning = false
StopCall(s) ==
    /\ ~crashed
    /\ stopPc[s] = "idle"
    /\ \A q \in Stops : q < s => stopPc[q] # "idle"
    /\ isRunning' = FALSE
    /\ stopPc' = [stopPc EXCEPT ![s] = "close"]
    /\ stopRequested' = TRUE
    /\ quietStop' = [q \in Stops |->
                        IF q = s THEN ~isRunning /\ StopsInProgress = {}
                        ELSE quietStop[q] /\ q \notin StopsInProgress]
    /\ UNCHANGED <<stopMonitorCh, monitorWg, runPc, monPc, crashed, properStart,
                   notLife>>

\* Stop: close(at.stopMonitorCh); closing a closed channel panics, and the
\* panic, recovered nowhere, ends the process
StopClose(s) ==
    /\ ~crashed
    /\ stopPc[s] = "close"
    /\ \/ /\ stopMonitorCh = "open"
          /\ stopMonitorCh' = "closed"
          /\ stopPc' = [stopPc EXCEPT ![s] = "wait"]
          /\ UNCHANGED crashed
       \/ /\ stopMonitorCh = "closed"
          /\ crashed' = TRUE
          /\ stopPc' = [stopPc EXCEPT ![s] = "panicked"]
          /\ UNCHANGED stopMonitorCh
    /\ UNCHANGED <<isRunning, monitorWg, runPc, monPc, stopRequested, quietStop,
                   properStart, notLife>>

\* Stop: at.monitorWg.Wait() returns, and Stop with it
StopWait(s) ==
    /\ ~crashed
    /\ stopPc[s] = "wait"
    /\ monitorWg = 0
    /\ stopPc' = [stopPc EXCEPT ![s] = "returned"]
    /\ UNCHANGED <<isRunning, stopMonitorCh, monitorWg, runPc, monPc, crashed,
                   stopRequested, quietStop, properStart, notLife>>

(***************************************************************************)
(* The drawdown monitor: checkPositionDrawdown against the venue's         *)
(* positions of one symbol, long and short.  Returns are leveraged returns *)
(* in whole percent; the code's float64 arithmetic is taken as exact.      *)
(* The list the tick works on is the venue's current list of positions.    *)
(***************************************************************************)
\* if currentPnLPct > 5.0 && drawdownPct >= 40.0
MinProfitPct == 5
DrawdownLimitPct == 40

MSymbols == {"BTCUSDT"}
Sides == {"long", "short"}
MKeys == MSymbols \X Sides
\* the returns a position takes in the model
ReturnValues == {-2, 5, 6, 10, 601, 1000}

NoPosition == [open |-> FALSE, ret |-> 0]
NoPeak == [seen |-> FALSE, v |-> 0]
EmptyCache == [x \in {} |-> 0]

Max(a, b) == IF a > b THEN a ELSE b

\* the orders in which GetPositions may list the keys of S
Orderings(S) ==
    {f \in [1 .. Cardinality(S) -> S] : \A i, j \in DOMAIN f : i # j => f[i] # f[j]}

UpdatePeakPnL_Overwrite(cache, symbol, currentPnLPct) ==
    [x \in DOMAIN cache \cup {symbol} |->
        IF x = symbol THEN currentPnLPct ELSE cache[x]]

UpdatePeakPnL(cache, symbol, currentPnLPct) ==
    IF symbol \in DOMAIN cache
    THEN IF currentPnLPct > cache[symbol]
         THEN [cache EXCEPT ![symbol] = currentPnLPct]
         ELSE cache
    ELSE [x \in DOMAIN cache \cup {symbol} |->
             IF x = symbol THEN currentPnLPct ELSE cache[x]]

ClearPeakPnLCache(cache, symbol) ==
    [x \in DOMAIN cache \ {symbol} |-> cache[x]]

\* drawdownPct >= limit, drawdownPct being 0 unless peakPnLPct > 0 and
\* currentPnLPct < peakPnLPct, and ((peak - current) / peak) * 100 then
DrawdownAtLeast_Strict(peakPnLPct, currentPnLPct, limit) ==
    /\ peakPnLPct > 0 /\ currentPnLPct < peakPnLPct
    /\ (peakPnLPct - currentPnLPct) * 100 > limit * peakPnLPct

DrawdownAtLeast(peakPnLPct, currentPnLPct, limit) ==
    /\ peakPnLPct > 0 /\ currentPnLPct < peakPnLPct
    /\ (peakPnLPct - currentPnLPct) * 100 >= limit * peakPnLPct

\* one iteration of `for _, pos := range positions` on the position key,
\* st being [cache, log] as the iterations before left them
CheckPosition(st, key, closeOk) ==
    LET symbol == key[1]
        currentPnLPct == mPos[key].ret
        exists == symbol \in DOMAIN st.cache
        peakPnLPct == IF exists THEN st.cache[symbol] ELSE currentPnLPct
        updated == UpdatePeakPnL(st.cache, symbol, currentPnLPct)
        trigger == /\ currentPnLPct > MinProfitPct
                   /\ DrawdownAtLeast(peakPnLPct, currentPnLPct, DrawdownLimitPct)
        closed == trigger /\ closeOk[key]
    IN  [cache |-> IF closed THEN ClearPeakPnLCache(updated, symbol) ELSE updated,
         log |-> Append(st.log,
                    [key |-> key, current |-> currentPnLPct, exists |-> exists,
                     peak |-> peakPnLPct, life |-> lifePeak[key],
                     issued |-> trigger, closed |-> closed])]

RECURSIVE CheckFrom(_, _, _, _)
CheckFrom(st, list, i, closeOk) ==
    IF i > Len(list) THEN st
    ELSE CheckFrom(CheckPosition(st, list[i], closeOk), list, i + 1, closeOk)

MonitorIdle ==
    /\ mPos = [k \in MKeys |-> NoPosition]
    /\ peakPnLCache = EmptyCache
    /\ lifePeak = [k \in MKeys |-> NoPeak]
    /\ mLog = <<>>

notMonitor == <<sortVars, valVars, cycleVars, adapterVars, lifeVars, syncVars,
                gwVars, exVars, trkVars, orderVars, lastVars>>

\* a position is opened (by a cycle's open action)
PositionOpened(key, ret) ==
    /\ ~mPos[key].open
    /\ mPos' = [mPos EXCEPT ![key] = [open |-> TRUE, ret |-> ret]]
    /\ lifePeak' = [lifePeak EXCEPT ![key] = NoPeak]
    /\ mLog' = <<>>
    /\ UNCHANGED <<peakPnLCache, notMonitor>>

\* the mark price moves
PriceMoved(key, ret) ==
    /\ mPos[key].open
    /\ ret # mPos[key].ret
    /\ mPos' = [mPos EXCEPT ![key].ret = ret]
    /\ mLog' = <<>>
    /\ UNCHANGED <<peakPnLCache, lifePeak, notMonitor>>

\* a position is closed by a cycle's close action (executeCloseLongWithRecord,
\* executeCloseShortWithRecord) or by the venue: peakPnLCache is not touched
PositionClosed(key) ==
    /\ mPos[key].open
    /\ mPos' = [mPos EXCEPT ![key] = NoPosition]
    /\ lifePeak' = [lifePeak EXCEPT ![key] = NoPeak]
    /\ mLog' = <<>>
    /\ UNCHANGED <<peakPnLCache, notMonitor>>

\* one tick of the monitor: checkPositionDrawdown
checkPositionDrawdown(fetchOk, list, closeOk) ==
    /\ list \in Orderings({k \in MKeys : mPos[k].open})
    /\ IF ~fetchOk
       THEN /\ mLog' = <<>>
            /\ UNCHANGED <<mPos, peakPnLCache, lifePeak>>
       ELSE LET st == CheckFrom([cache |-> peakPnLCache, log |-> <<>>], list, 1, closeOk)
                closedKeys == {st.log[i].key : i \in {j \in DOMAIN st.log : st.log[j].closed}}
            IN  /\ peakPnLCache' = st.cache
                /\ mLog' = st.log
                /\ mPos' = [k \in MKeys |-> IF k \in closedKeys THEN NoPosition ELSE mPos[k]]
                /\ lifePeak' = [k \in MKeys |->
                      IF k \in closedKeys \/ ~mPos[k].open THEN NoPeak
                      ELSE [seen |-> TRUE,
                            v |-> IF lifePeak[k].seen THEN Max(lifePeak[k].v, mPos[k].ret)
                                  ELSE mPos[k].ret]]
    /\ UNCHANGED notMonitor

(***************************************************************************)
(* The declared initial balance: NewAutoTrader's check of the configured   *)
(* value and autoSyncBalanceIfNeeded, the third step of runCycle.  Time is *)
(* in minutes, balances in whole USDT; the float64 arithmetic is taken as  *)
(* exact.  The balance map is the one OKXTrader.GetBalance builds, which   *)
(* has the key availableBalance and neither available_balance nor balance. *)
(***************************************************************************)
\* if time.Since(at.lastBalanceSyncTime) < 10*time.Minute
SyncInterval == 10
\* if math.Abs(changePercent) > 5.0
SyncThresholdPct == 5

\* config.InitialBalance as configured
ConfigBalances == {-10, 0, 100}
\* the available balance the venue reports
AvailableBalances == {-10, 0, 94, 95, 100, 105, 106, 120}

NoSync == [called |-> FALSE, due |-> FALSE, fetchOk |-> FALSE, available |-> 0,
           old |-> 0, stored |-> FALSE]
NothingStored == [set |-> FALSE, v |-> 0]

Abs(x) == IF x < 0 THEN -x ELSE x

SyncIdle ==
    /\ syncPc = "new"
    /\ syncNow = 0
    /\ initialBalance = 0
    /\ lastBalanceSyncTime = 0
    /\ database = "nil"
    /\ storeBalance = NothingStored
    /\ syncLast = NoSync

notSync == <<sortVars, valVars, cycleVars, adapterVars, lifeVars, monitorVars,
             gwVars, exVars, trkVars, orderVars, lastVars>>

\* NewAutoTrader(config, database, userID): a non-positive InitialBalance is
\* rejected and no trader is built
NewAutoTrader(configured, db) ==
    /\ syncPc = "new"
    /\ IF configured <= 0
       THEN /\ syncPc' = "rejected"
            /\ UNCHANGED <<initialBalance, lastBalanceSyncTime, database>>
       ELSE /\ syncPc' = "ready"
            /\ initialBalance' = configured
            /\ lastBalanceSyncTime' = syncNow
            /\ database' = db
    /\ UNCHANGED <<syncNow, storeBalance, syncLast, notSync>>

SyncTimePasses ==
    /\ syncNow + SyncStep <= MaxSyncTime
    /\ syncNow' = syncNow + SyncStep
    /\ UNCHANGED <<syncPc, initialBalance, lastBalanceSyncTime, database,
                   storeBalance, syncLast, notSync>>

\* whether autoSyncBalanceIfNeeded replaces at.initialBalance by actualBalance
SyncReplaces_AtThreshold(oldBalance, actualBalance) ==
    \/ oldBalance <= 0
    \/ Abs(actualBalance - oldBalance) * 100 >= SyncThresholdPct * oldBalance

SyncReplaces(oldBalance, actualBalance) ==
    \/ oldBalance <= 0
    \/ Abs(actualBalance - oldBalance) * 100 > SyncThresholdPct * oldBalance

\* whether a usable balance is taken from the map: availableBalance > 0
Extractable_AllowsZero(available) == available >= 0

Extractable(available) == available > 0

\* autoSyncBalanceIfNeeded, as a cycle calls it: fetchOk is GetBalance's
\* success, available the availableBalance it returns, dbOk the success of
\* UpdateTraderInitialBalance
autoSyncBalanceIfNeeded(fetchOk, available, dbOk) ==
    /\ syncPc = "ready"
    /\ LET due == ~(syncNow - lastBalanceSyncTime < SyncInterval)
           extracted == due /\ fetchOk /\ Extractable(available)
           replace == extracted /\ SyncReplaces(initialBalance, available)
           store == replace /\ database = "store"
       IN  /\ lastBalanceSyncTime' = IF due THEN syncNow ELSE lastBalanceSyncTime
           /\ initialBalance' = IF replace THEN available ELSE initialBalance
           /\ storeBalance' = IF store /\ dbOk THEN [set |-> TRUE, v |-> available]
                              ELSE storeBalance
           /\ syncLast' = [called |-> TRUE, due |-> due, fetchOk |-> due /\ fetchOk,
                           available |-> IF due /\ fetchOk THEN available ELSE 0,
                           old |-> initialBalance, stored |-> store]
    /\ UNCHANGED <<syncPc, syncNow, database, notSync>>

(***************************************************************************)
(* The LLM gateway: Client.CallWithMessages, Client.callOnce and           *)
(* isRetryableError.  A text is the sequence of its words; the gateway     *)
(* only ever asks whether a lower-cased text contains a phrase.            *)
(***************************************************************************)
\* maxRetries := 5
maxRetries_Six == 5 + 1

maxRetries == 5

\* the HTTP status codes the backend answers with
Statuses == {200, 400, 408, 429, 500}

\* %d of a status code
StatusText(code) ==
    CASE code = 200 -> "200" [] code = 400 -> "400" [] code = 408 -> "408"
      [] code = 429 -> "429" [] code = 500 -> "500"

\* the response bodies of the backend: the completion, an empty body, and
\* error pages
Bodies == {<<"content">>, <<>>, <<"Bad", "Gateway">>, <<"Gateway", "Timeout">>}

\* what the transport reports when no response arrives
TransportErrors == {<<"EOF">>, <<"x509", "certificate">>}

\* one attempt's outcome at the wire: a response with status and body, or a
\* transport failure
Responses ==
    [kind : {"http"}, status : {200}, body : {<<"content">>}]
    \cup [kind : {"http"}, status : Statuses \ {200},
          body : Bodies \ {<<"content">>}]
    \cup [kind : {"transport"}, status : {0}, body : TransportErrors]

\* strings.ToLower, word by word
LowerWord(w) ==
    CASE w = "EOF" -> "eof" [] w = "Timeout" -> "timeout" [] w = "Bad" -> "bad"
      [] w = "Gateway" -> "gateway" [] w = "API" -> "api" [] OTHER -> w

ToLower(text) == [i \in 1..Len(text) |-> LowerWord(text[i])]

\* strings.Contains, for a phrase of one word
Contains(text, phrase) == \E i \in 1..Len(text) : text[i] = phrase

\* the phrases isRetryableError looks for
retryableErrors ==
    {"eof", "timeout", "connection reset", "connection refused",
     "connection closed", "broken pipe", "temporary failure", "no such host",
     "stream error", "internal_error", "network is unreachable", "i/o timeout",
     "context deadline exceeded", "read: connection reset", "write: broken pipe"}

\* isRetryableError(err): the error's lower-cased text contains one of the
\* phrases; the status code is not looked at
isRetryableError(err) ==
    \E retryable \in retryableErrors : Contains(ToLower(err), retryable)

\* Client.callOnce against a backend answering resp: the completion on
\* status 200, else an error whose text carries the status and the body, or
\* the transport's error
callOnce(resp) ==
    IF resp.kind = "transport"
    THEN [result |-> <<>>, err |-> <<"send", "failed">> \o resp.body]
    ELSE IF resp.status # 200
    THEN [result |-> <<>>,
          err |-> <<"API", "status", StatusText(resp.status)>> \o resp.body]
    ELSE [result |-> resp.body, err |-> <<>>]

\* the pause before the next attempt, in seconds: 2, 4, 8, 16, at most 30
waitTime(attempt) == Min(2 ^ (attempt - 1) * 2, 30)

NoResult == [returned |-> FALSE, result |-> <<>>, err |-> <<>>]

GwIdle ==
    /\ gwPc = "idle"
    /\ gwAttempt = 0
    /\ gwLog = <<>>
    /\ gwWaits = <<>>
    /\ gwReturn = NoResult

notGateway == <<sortVars, valVars, cycleVars, adapterVars, lifeVars, monitorVars,
                syncVars, exVars, trkVars, orderVars, lastVars>>

\* CallWithMessages is called: without an API key it returns an error at
\* once, else the loop starts with attempt 1
CallWithMessages(apiKeySet) ==
    /\ gwPc = "idle"
    /\ gwLog' = <<>>
    /\ gwWaits' = <<>>
    /\ IF ~apiKeySet
       THEN /\ gwPc' = "returned"
            /\ gwAttempt' = 0
            /\ gwReturn' = [returned |-> TRUE, result |-> <<>>,
                            err |-> <<"API", "key", "not", "set">>]
       ELSE /\ gwPc' = "attempt"
            /\ gwAttempt' = 1
            /\ gwReturn' = NoResult
    /\ UNCHANGED notGateway

\* one iteration of the loop up to its sleep: callOnce, return on success or
\* on a non-retryable error, go to sleep before the next attempt, or leave
\* the loop after the last one and return the wrapped last error
Attempt(resp) ==
    /\ gwPc = "attempt"
    /\ gwAttempt <= maxRetries
    /\ LET once == callOnce(resp)
           retry == isRetryableError(once.err)
       IN  /\ gwLog' = Append(gwLog, [resp |-> resp, ok |-> once.err = <<>>,
                                      retryable |-> once.err # <<>> /\ retry])
           /\ IF once.err = <<>>
              THEN /\ gwReturn' = [returned |-> TRUE, result |-> once.result,
                                   err |-> <<>>]
                   /\ gwPc' = "returned"
                   /\ UNCHANGED gwAttempt
              ELSE IF ~retry
              THEN /\ gwReturn' = [returned |-> TRUE, result |-> <<>>,
                                   err |-> once.err]
                   /\ gwPc' = "returned"
                   /\ UNCHANGED gwAttempt
              ELSE IF gwAttempt < maxRetries
              THEN /\ gwReturn' = NoResult
                   /\ gwPc' = "sleeping"
                   /\ UNCHANGED gwAttempt
              ELSE /\ gwReturn' = [returned |-> TRUE, result |-> <<>>,
                                   err |-> <<"still", "failing">> \o once.err]
                   /\ gwPc' = "returned"
                   /\ gwAttempt' = gwAttempt + 1
    /\ UNCHANGED <<gwWaits, notGateway>>

\* time.Sleep(waitTime) is over; attempt++
Sleep ==
    /\ gwPc = "sleeping"
    /\ gwWaits' = Append(gwWaits, waitTime(gwAttempt))
    /\ gwAttempt' = gwAttempt + 1
    /\ gwPc' = "attempt"
    /\ UNCHANGED <<gwLog, gwReturn, notGateway>>

\* the caller has the answer; the client is free for the next call
GatewayDone ==
    /\ gwPc = "returned"
    /\ gwPc' = "idle"
    /\ gwAttempt' = 0
    /\ gwLog' = <<>>
    /\ gwWaits' = <<>>
    /\ gwReturn' = NoResult
    /\ UNCHANGED notGateway

(***************************************************************************)
(* extractDecisions on the text of an LLM response (market/okx_client.go,  *)
(* package decision).  A text is the sequence of its tokens: prose, the    *)
(* ASCII brackets and braces, a full-width opening bracket, and the        *)
(* markers of a ```json code block.  White space is not a token.           *)
(***************************************************************************)
\* longest bracket part of a response text in SpecExtract
MaxTokens == 4

ExTokens == {"cot", "[", "{", "}", "]", "FW["}

\* the response texts: prose or a code-block opening, bracket tokens, and
\* possibly the code block's end
ExTexts ==
    {pre \o body \o post :
        pre \in {<<>>, <<"cot">>, <<"fence">>},
        body \in BoundedSeq(ExTokens, MaxTokens),
        post \in {<<>>, <<"endfence">>}}

\* fixMissingQuotes: full-width and CJK brackets become ASCII ones
fixMissingQuotes(s) ==
    [i \in 1..Len(s) |-> IF s[i] = "FW[" THEN "[" ELSE s[i]]

NoMatch == [found |-> FALSE, content |-> <<>>]

\* the least element of a non-empty set of numbers
Least(S) == CHOOSE x \in S : \A y \in S : x <= y

\* reJSONArray.FindString(s): the leftmost "[" "{" ... "}" "]", as short as
\* possible
reJSONArray_WholeText(s) == [found |-> TRUE, content |-> s]

reJSONArray(s) ==
    LET ends(i) == {j \in (i + 2)..(Len(s) - 1) : s[j] = "}" /\ s[j + 1] = "]"}
        starts  == {i \in 1..(Len(s) - 3) :
                       s[i] = "[" /\ s[i + 1] = "{" /\ ends(i) # {}}
    IN  IF starts = {} THEN NoMatch
        ELSE LET i == Least(starts)
             IN  [found |-> TRUE, content |-> SubSeq(s, i, Least(ends(i)) + 1)]

\* reJSONFence.FindStringSubmatch(s): the same between ```json and ```
reJSONFence(s) ==
    LET ends(i) == {j \in (i + 3)..(Len(s) - 2) :
                       s[j] = "}" /\ s[j + 1] = "]" /\ s[j + 2] = "endfence"}
        starts  == {i \in 1..(Len(s) - 5) :
                       s[i] = "fence" /\ s[i + 1] = "[" /\ s[i + 2] = "{"
                       /\ ends(i) # {}}
    IN  IF starts = {} THEN NoMatch
        ELSE LET i == Least(starts)
             IN  [found |-> TRUE, content |-> SubSeq(s, i + 1, Least(ends(i)) + 1)]

\* validateJSONFormat: the content must begin with "[" "{"
validateJSONFormat(content) ==
    IF Len(content) >= 2 /\ content[1] = "[" /\ content[2] = "{" THEN "" ELSE "format"

\* json.Unmarshal(content, &decisions): the content must be "[", objects,
\* "]"; an object whose fields the text does not give unmarshals to the zero
\* Decision
jsonUnmarshal(content) ==
    LET n == Len(content)
        wellFormed ==
            /\ n >= 4 /\ n % 2 = 0
            /\ content[1] = "[" /\ content[n] = "]"
            /\ \A k \in 2..(n - 1) : content[k] = IF k % 2 = 0 THEN "{" ELSE "}"
    IN  IF wellFormed
        THEN [decisions |-> [k \in 1..((n - 2) \div 2) |-> Decision("", "", 0, 0, 0, 0, 0)],
              err |-> ""]
        ELSE [decisions |-> <<>>, err |-> "parse"]

\* the parse of a matched array, in both branches of extractDecisions
parseArray(content) ==
    IF validateJSONFormat(content) # ""
    THEN [decisions |-> <<>>, err |-> "format"]
    ELSE jsonUnmarshal(content)

\* extractDecisions(response)
extractDecisionsText(response) ==
    LET s      == fixMissingQuotes(response)
        fenced == reJSONFence(s)
        array  == reJSONArray(s)
    IN  IF fenced.found THEN parseArray(fenced.content)
        ELSE IF ~array.found THEN [decisions |-> <<FallbackDecision>>, err |-> ""]
        ELSE parseArray(array.content)

\* executeDecisionWithRecord calls the exchange adapter for every action but
\* hold and wait
CallsExchange(action) == action \notin {"hold", "wait"}

NoExtract == [decisions |-> <<>>, err |-> ""]

ExIdle ==
    /\ exPc = "idle"
    /\ exText = <<>>
    /\ exResult = NoExtract

notExtract == <<sortVars, valVars, cycleVars, adapterVars, lifeVars, monitorVars,
                syncVars, gwVars, trkVars, orderVars, lastVars>>

\* the gateway hands a response text to parseFullDecisionResponse
ResponseReceived(text) ==
    /\ exPc = "idle"
    /\ exPc' = "received"
    /\ exText' = text
    /\ exResult' = NoExtract
    /\ UNCHANGED notExtract

\* decisions, err := extractDecisions(aiResponse)
ExtractDecisions ==
    /\ exPc = "received"
    /\ exPc' = "extracted"
    /\ exResult' = extractDecisionsText(exText)
    /\ UNCHANGED <<exText, notExtract>>

(***************************************************************************)
(* The engine's handling of the positions of one symbol (BTCUSDT):         *)
(* executeOpenLongWithRecord / executeOpenShortWithRecord with their       *)
(* duplicate-position check, and buildTradingContext with its map          *)
(* positionFirstSeenTime, on top of the adapter's cached GetPositions.     *)
(* A key of the maps is a side; the code's key is symbol + "_" + side.     *)
(***************************************************************************)
\* no entry in positionFirstSeenTime; the time of nothing
NoTime == -1

\* the sides the venue holds a position of
TrkHeld == {k \in Sides : trkVenue[k] > 0}

\* at.trader.GetPositions(): the cached list while the cache is non-nil and
\* younger than cacheDuration, else a fetch, which may fail; a fetched empty
\* list is stored as nil
TrkGetPositions(apiOk) ==
    IF ~trkCache.nil /\ trkNow - trkCacheTime < CacheDuration
    THEN [ok |-> TRUE, list |-> trkCache.list, cache |-> trkCache,
          cacheTime |-> trkCacheTime]
    ELSE IF ~apiOk
    THEN [ok |-> FALSE, list |-> {}, cache |-> trkCache, cacheTime |-> trkCacheTime]
    ELSE [ok |-> TRUE, list |-> TrkHeld,
          cache |-> [nil |-> TrkHeld = {}, list |-> TrkHeld], cacheTime |-> trkNow]

NoOpen == [action |-> "none", held |-> FALSE, placed |-> FALSE, err |-> FALSE]

TrackIdle ==
    /\ trkNow = 0
    /\ trkVenue = [k \in Sides |-> 0]
    /\ trkCache = NilList
    /\ trkCacheTime = 0
    /\ positionFirstSeenTime = [k \in Sides |-> NoTime]
    /\ trkLast = NoOpen
    /\ trkLifeFirst = [k \in Sides |-> NoTime]
    /\ trkCyclesGone = [k \in Sides |-> 0]

notTrack == <<sortVars, valVars, cycleVars, adapterVars, lifeVars, monitorVars,
              syncVars, gwVars, exVars, orderVars, lastVars>>

TrkTimePasses ==
    /\ trkNow + TimeStep <= MaxTime
    /\ trkNow' = trkNow + TimeStep
    /\ UNCHANGED <<trkVenue, trkCache, trkCacheTime, positionFirstSeenTime, trkLast,
                   trkLifeFirst, trkCyclesGone, notTrack>>

\* whether the open goes on after the duplicate-position check: an open long
\* returns the error of a failed GetPositions, an open short skips the check
\* then; both refuse when the list has a position of their side
PassesDuplicateCheck(side, read) ==
    IF read.ok THEN side \notin read.list ELSE side = "short"

\* executeOpenLongWithRecord / executeOpenShortWithRecord: the duplicate
\* check, then the price, the margin mode and at.trader.OpenLong / OpenShort;
\* orderOk = FALSE stands for any failure after the check, up to the venue
\* rejecting the order.  A placed order is filled, and the open's time is
\* written to positionFirstSeenTime.
ExecuteOpen(side, posApiOk, orderOk) ==
    LET read   == TrkGetPositions(posApiOk)
        placed == PassesDuplicateCheck(side, read) /\ orderOk
    IN  /\ placed => trkVenue[side] < MaxQty
        /\ trkCache' = read.cache
        /\ trkCacheTime' = read.cacheTime
        /\ trkVenue' = IF placed THEN [trkVenue EXCEPT ![side] = @ + 1] ELSE trkVenue
        /\ positionFirstSeenTime' =
              IF placed THEN [positionFirstSeenTime EXCEPT ![side] = trkNow]
              ELSE positionFirstSeenTime
        /\ trkLast' = [action |-> side, held |-> trkVenue[side] > 0,
                       placed |-> placed, err |-> ~placed]
        /\ trkLifeFirst' = IF placed /\ trkVenue[side] = 0
                           THEN [trkLifeFirst EXCEPT ![side] = trkNow]
                           ELSE trkLifeFirst
        /\ trkCyclesGone' = IF placed THEN [trkCyclesGone EXCEPT ![side] = 0]
                            ELSE trkCyclesGone
        /\ UNCHANGED <<trkNow, notTrack>>

executeOpenLongWithRecord(posApiOk, orderOk) == ExecuteOpen("long", posApiOk, orderOk)

executeOpenShortWithRecord(posApiOk, orderOk) == ExecuteOpen("short", posApiOk, orderOk)

\* the venue closes a position: a protective order is hit, or a close order
\* of the engine or of the monitor is filled; none of them touches
\* positionFirstSeenTime
TrkPositionCloses(side) ==
    /\ trkVenue[side] > 0
    /\ trkVenue' = [trkVenue EXCEPT ![side] = 0]
    /\ trkLifeFirst' = [trkLifeFirst EXCEPT ![side] = NoTime]
    /\ trkCyclesGone' = [trkCyclesGone EXCEPT ![side] = 0]
    /\ UNCHANGED <<trkNow, trkCache, trkCacheTime, positionFirstSeenTime, trkLast,
                   notTrack>>

\* positionFirstSeenTime after the loops of buildTradingContext over the
\* list GetPositions returned: a listed key without an entry gets the
\* current time, an entry whose key is not listed is deleted
TrackedAfter(seen, list, t) ==
    [k \in Sides |-> IF k \notin list THEN NoTime
                     ELSE IF seen[k] = NoTime THEN t ELSE seen[k]]

\* one cycle, as far as buildTradingContext: it returns at a failed
\* GetBalance or GetPositions before it touches positionFirstSeenTime
buildTradingContext(balOk, posApiOk) ==
    LET read == IF balOk THEN TrkGetPositions(posApiOk)
                ELSE [ok |-> FALSE, list |-> {}, cache |-> trkCache,
                      cacheTime |-> trkCacheTime]
    IN  /\ trkCache' = read.cache
        /\ trkCacheTime' = read.cacheTime
        /\ positionFirstSeenTime' =
              IF read.ok THEN TrackedAfter(positionFirstSeenTime, read.list, trkNow)
              ELSE positionFirstSeenTime
        /\ trkLifeFirst' =
              [k \in Sides |->
                  IF trkVenue[k] > 0 /\ trkLifeFirst[k] = NoTime
                     /\ positionFirstSeenTime'[k] # NoTime
                  THEN positionFirstSeenTime'[k] ELSE trkLifeFirst[k]]
        /\ trkCyclesGone' =
              [k \in Sides |-> IF trkVenue[k] = 0 THEN Min(trkCyclesGone[k] + 1, 2)
                               ELSE 0]
        /\ trkLast' = NoOpen
        /\ UNCHANGED <<trkNow, trkVenue, notTrack>>

(***************************************************************************)
(* OKXTrader.FormatQuantity, CloseLong and CloseShort (trader/             *)
(* okx_trader.go).  Quantities are whole numbers of 0.0001, the smallest   *)
(* lot size the adapter knows, so 700 stands for 0.07.  The instrument's   *)
(* lot size at the venue is 0.0001, 0.001 or 0.01; the two requests        *)
(* GetSymbolPrecision and GetSymbolLotSz send for it are inputs.           *)
(***************************************************************************)
\* the lot sizes of the instruments, and the quantities callers hand over
LotSizes == {1, 10, 100}
Quantities == {1, 4, 7, 10, 12, 70, 100, 150, 500, 700}
\* a position at the venue is a whole number of lots
PositionLots == {0, 1, 7}

\* calculatePrecisionFromStepSize("0.0001") = 4, ("0.001") = 3, ("0.01") = 2
calculatePrecisionFromStepSize(lotSz) ==
    CASE lotSz = 1 -> 4
      [] lotSz = 10 -> 3
      [] lotSz = 100 -> 2

\* the precision, and the lot size, the adapter falls back to when the
\* instruments request fails: 3 decimals, and 0.0001
DefaultPrecision == 3
DefaultLotSz == 1

GetSymbolPrecision(lotSz, apiOk) ==
    IF apiOk THEN calculatePrecisionFromStepSize(lotSz) ELSE DefaultPrecision

GetSymbolLotSz(lotSz, apiOk) == IF apiOk THEN lotSz ELSE DefaultLotSz

\* quantity / lotSz in float64 arithmetic lies above the exact quotient for
\* 0.07 / 0.01 = 7.000000000000001; for every other pair of Quantities and
\* LotSizes math.Ceil of the float64 quotient is the ceiling of the exact one
QuotientAboveExact(quantity, lotSz) == quantity = 700 /\ lotSz = 100

\* math.Ceil(quantity / lotSz)
CeilOfQuotient(quantity, lotSz) ==
    IF quantity % lotSz # 0 THEN (quantity \div lotSz) + 1
    ELSE IF QuotientAboveExact(quantity, lotSz) THEN (quantity \div lotSz) + 1
    ELSE quantity \div lotSz

\* fmt.Sprintf("%.<precision>f", x): the nearest number of that many
\* decimals.  A decimal tie is decided by the float64 value of x, which lies
\* on either side of the decimal one (150 * 0.0001 prints as 0.02 and
\* 15 * 0.001 as 0.01 with two decimals), so tieUp is an input.
SprintfAbs(x, precision, tieUp) ==
    LET g  == 10 ^ (4 - precision)
        r  == x % g
        lo == x - r
    IN  IF 2 * r < g THEN lo
        ELSE IF 2 * r > g THEN lo + g
        ELSE IF tieUp THEN lo + g ELSE lo

Sprintf(x, precision, tieUp) ==
    IF x >= 0 THEN SprintfAbs(x, precision, tieUp)
    ELSE 0 - SprintfAbs(0 - x, precision, tieUp)

\* FormatQuantity(symbol, quantity).  GetSymbolPrecision and GetSymbolLotSz
\* never return an error, so the "%.8f" branch is dead.  A quantity that is
\* not positive is not rounded.
FormatQuantity(quantity, lotSz, precOk, lotOk, tieUp) ==
    LET precision == GetSymbolPrecision(lotSz, precOk)
        lot       == GetSymbolLotSz(lotSz, lotOk)
        rounded   == IF quantity > 0
                     THEN IF quantity < lot THEN lot
                          ELSE CeilOfQuotient(quantity, lot) * lot
                     ELSE quantity
    IN  Sprintf(rounded, precision, tieUp)

\* the answers of GetPositions to a close: the cached list (which may list
\* an amount the venue no longer holds), the venue's list, or an error
PositionReads == {"cached", "fetched", "failed"}

NoQtyCall == [op |-> "none"]
NoQtyResult == [err |-> "", submitted |-> FALSE, sz |-> 0]

QtyIdle ==
    /\ qtyCall = NoQtyCall
    /\ qtyResult = NoQtyResult


notQuantity == <<sortVars, valVars, cycleVars, adapterVars, lifeVars, monitorVars,
                 syncVars, gwVars, exVars, trkVars, opnVars, updVars,
                 lastVars>>

\* one call of FormatQuantity
FormatQuantityCalled(quantity, lotSz, precOk, lotOk, tieUp) ==
    /\ qtyCall = NoQtyCall
    /\ qtyCall' = [op |-> "FormatQuantity", quantity |-> quantity, lotSz |-> lotSz,
                   precOk |-> precOk, lotOk |-> lotOk]
    /\ qtyResult' = [err |-> "", submitted |-> FALSE,
                     sz |-> FormatQuantity(quantity, lotSz, precOk, lotOk, tieUp)]
    /\ UNCHANGED notQuantity

\* CloseLong(symbol, 0) and CloseShort(symbol, 0): the quantity is the
\* positionAmt GetPositions lists for the side, which GetPositions has made
\* positive; CloseShort negates it.  held is the venue's position of the
\* side, listed the amount the cache holds for it; orderOk is the venue's
\* answer to the order.
Close(side, lotSz, held, listed, read, precOk, lotOk, orderOk) ==
    LET positionAmt == IF read = "cached" THEN listed ELSE held
        quantity    == IF side = "long" THEN positionAmt ELSE 0 - positionAmt
        sz          == FormatQuantity(quantity, lotSz, precOk, lotOk, FALSE)
    IN  /\ qtyCall = NoQtyCall
        /\ read # "cached" => listed = held
        /\ qtyCall' = [op |-> "Close", side |-> side, lotSz |-> lotSz,
                       held |-> held, read |-> read,
                       precOk |-> precOk, lotOk |-> lotOk]
        /\ qtyResult' =
              IF read = "failed"
              THEN [err |-> "positions", submitted |-> FALSE, sz |-> 0]
              ELSE IF quantity = 0
              THEN [err |-> "no position", submitted |-> FALSE, sz |-> 0]
              ELSE [err |-> IF orderOk THEN "" ELSE "order",
                    submitted |-> TRUE, sz |-> sz]
        /\ UNCHANGED notQuantity

CloseLongZero(lotSz, held, listed, read, precOk, lotOk, orderOk) ==
    Close("long", lotSz, held, listed, read, precOk, lotOk, orderOk)

CloseShortZero(lotSz, held, listed, read, precOk, lotOk, orderOk) ==
    Close("short", lotSz, held, listed, read, precOk, lotOk, orderOk)

\* the caller takes the result
QuantityReturned ==
    /\ qtyCall # NoQtyCall
    /\ qtyCall' = NoQtyCall
    /\ qtyResult' = NoQtyResult
    /\ UNCHANGED notQuantity

(***************************************************************************)
(* OKXTrader.OpenLong and OpenShort (trader/okx_trader.go), up to the      *)
(* order request.  Prices and balances are whole numbers; the instrument's *)
(* lot size is OpenLotSz.  The answers of the venue to the requests of the *)
(* call are inputs, and so is the way GetBalance answers: from its cache,  *)
(* from the venue, or with an error.                                       *)
(***************************************************************************)
\* the price GetMarketPrice returns
MarkPrice == 4
\* stop-loss and take-profit prices a caller hands over; 0 stands for none
StopPrices == 0..(2 * MarkPrice)
OpenLotSz == 10
OpenQuantities == {4, 10, 12}
\* available balances, of the venue and of the adapter's cache, in units
\* that make a quantity of one lot cost its price without leverage
Balances == {MarkPrice, 2 * MarkPrice}
BalanceReads == {"cached", "fetched", "failed"}

\* stopLoss <= currentPrice * (1 - 1.0/leverage), for a long
AtOrBelowLongLiquidation(stopLoss, currentPrice, leverage) ==
    stopLoss * leverage <= currentPrice * (leverage - 1)

\* stopLoss >= currentPrice * (1 + 1.0/leverage), for a short
AtOrAboveShortLiquidation(stopLoss, currentPrice, leverage) ==
    stopLoss * leverage >= currentPrice * (leverage + 1)

\* the validation of stopLoss and takeProfit before the order: "" when it
\* passes.  A price that is not positive is not validated.
ValidateStops(side, stopLoss, takeProfit, currentPrice, leverage) ==
    IF side = "long"
    THEN IF stopLoss > 0 /\ stopLoss >= currentPrice THEN "stop loss"
         ELSE IF stopLoss > 0
                 /\ AtOrBelowLongLiquidation(stopLoss, currentPrice, leverage)
         THEN "stop loss"
         ELSE IF takeProfit > 0 /\ takeProfit <= currentPrice THEN "take profit"
         ELSE IF takeProfit > 0 /\ stopLoss > 0 /\ stopLoss >= takeProfit
         THEN "stop loss"
         ELSE ""
    ELSE IF stopLoss > 0 /\ stopLoss <= currentPrice THEN "stop loss"
         ELSE IF stopLoss > 0
                 /\ AtOrAboveShortLiquidation(stopLoss, currentPrice, leverage)
         THEN "stop loss"
         ELSE IF takeProfit > 0 /\ takeProfit >= currentPrice THEN "take profit"
         ELSE IF takeProfit > 0 /\ stopLoss > 0 /\ stopLoss <= takeProfit
         THEN "stop loss"
         ELSE ""

\* formattedMarginRequired > availableBalance, where formattedMarginRequired
\* is formattedQuantity * currentPrice / leverage, with the quantity in lots
MarginShort(formattedQuantity, currentPrice, leverage, availableBalance) ==
    (formattedQuantity \div OpenLotSz) * currentPrice > availableBalance * leverage

NoOpenCall == [op |-> "none"]
NoOpenResult == [err |-> "", submitted |-> FALSE]

OpenIdle ==
    /\ opnCall = NoOpenCall
    /\ opnResult = NoOpenResult

notOpen == <<sortVars, valVars, cycleVars, adapterVars, lifeVars, monitorVars,
             syncVars, gwVars, exVars, trkVars, qtyVars, updVars,
             lastVars>>

\* OpenLong / OpenShort(symbol, quantity, leverage, stopLoss, takeProfit):
\* CancelAllOrders (its error is logged), SetLeverageWithPosSide,
\* GetMarketPrice, GetBalance, FormatQuantity, the margin check, the
\* validation of the stops, and the order.
Open(side, quantity, leverage, stopLoss, takeProfit, venueBalance, cachedBal, read, leverOk, priceOk, orderOk) ==
    LET availableBalance  == IF read = "cached" THEN cachedBal ELSE venueBalance
        formattedQuantity == FormatQuantity(quantity, OpenLotSz, TRUE, TRUE, FALSE)
        stops == ValidateStops(side, stopLoss, takeProfit, MarkPrice, leverage)
        err == IF ~leverOk THEN "leverage"
               ELSE IF ~priceOk THEN "price"
               ELSE IF read = "failed" THEN "balance"
               ELSE IF MarginShort(formattedQuantity, MarkPrice, leverage,
                                   availableBalance)
               THEN "margin"
               ELSE IF stops # "" THEN stops
               ELSE IF ~orderOk THEN "order"
               ELSE ""
    IN  /\ opnCall = NoOpenCall
        /\ read # "cached" => cachedBal = venueBalance
        /\ opnCall' = [op |-> "Open", side |-> side,
                       formattedQuantity |-> formattedQuantity,
                       leverage |-> leverage, stopLoss |-> stopLoss,
                       takeProfit |-> takeProfit, venueBalance |-> venueBalance,
                       read |-> read, leverOk |-> leverOk, priceOk |-> priceOk]
        /\ opnResult' = [err |-> err, submitted |-> err \in {"", "order"}]
        /\ UNCHANGED notOpen

OpenLongChecks(quantity, leverage, stopLoss, takeProfit, venueBalance, cachedBal, read, leverOk, priceOk, orderOk) ==
    Open("long", quantity, leverage, stopLoss, takeProfit, venueBalance,
         cachedBal, read, leverOk, priceOk, orderOk)

OpenShortChecks(quantity, leverage, stopLoss, takeProfit, venueBalance, cachedBal, read, leverOk, priceOk, orderOk) ==
    Open("short", quantity, leverage, stopLoss, takeProfit, venueBalance,
         cachedBal, read, leverOk, priceOk, orderOk)

\* the caller takes the result
OpenReturned ==
    /\ opnCall # NoOpenCall
    /\ opnCall' = NoOpenCall
    /\ opnResult' = NoOpenResult
    /\ UNCHANGED notOpen

(***************************************************************************)
(* AutoTrader.executeUpdateStopLossWithRecord and                          *)
(* executeUpdateTakeProfitWithRecord (mcp/client.go), with                 *)
(* OKXTrader.CancelStopLossOrders, CancelTakeProfitOrders, SetStopLoss and *)
(* SetTakeProfit (trader/okx_trader.go), for one symbol.  The venue holds  *)
(* the symbol's position and its pending orders, counted per ordType.      *)
(***************************************************************************)
\* most pending orders of one ordType
MaxPending == 2
\* the ordType of a pending order
OrdTypes == {"stop_market", "stop", "take_profit_market", "take_profit"}
UpdPositions == {"none", "long", "short"}

\* the ordTypes CancelStopLossOrders, resp. CancelTakeProfitOrders, cancels
CancelTypes_All(action) == OrdTypes

CancelTypes(action) ==
    IF action = "update_stop_loss" THEN {"stop_market", "stop"}
    ELSE {"take_profit_market", "take_profit"}

\* the ordType of the order SetStopLoss, resp. SetTakeProfit, places
SetType(action) ==
    IF action = "update_stop_loss" THEN "stop_market" ELSE "take_profit_market"

\* the validation of the new price against marketData.CurrentPrice
NewPriceValid(action, positionSide, newPrice, currentPrice) ==
    IF action = "update_stop_loss"
    THEN /\ ~(positionSide = "long" /\ newPrice >= currentPrice)
         /\ ~(positionSide = "short" /\ newPrice <= currentPrice)
    ELSE /\ ~(positionSide = "long" /\ newPrice <= currentPrice)
         /\ ~(positionSide = "short" /\ newPrice >= currentPrice)

NoUpdate == [action |-> "none", listed |-> "none", err |-> "",
             before |-> [t \in OrdTypes |-> 0], cancelSent |-> {},
             placed |-> "none"]

UpdateIdle ==
    /\ updPos = "none"
    /\ updOrders = [t \in OrdTypes |-> 0]
    /\ updLast = NoUpdate

notUpdate == <<sortVars, valVars, cycleVars, adapterVars, lifeVars, monitorVars,
               syncVars, gwVars, exVars, trkVars, qtyVars, opnVars,
               lastVars>>

\* the venue's position of the symbol changes: an open fills, a close or a
\* protective order fills
UpdPositionChanges(side) ==
    /\ side # updPos
    /\ updPos' = side
    /\ updLast' = NoUpdate
    /\ UNCHANGED <<updOrders, notUpdate>>

\* an order of the symbol becomes pending at the venue
UpdOrderPending(ordType) ==
    /\ updOrders[ordType] < MaxPending
    /\ updOrders' = [updOrders EXCEPT ![ordType] = @ + 1]
    /\ updLast' = NoUpdate
    /\ UNCHANGED <<updPos, notUpdate>>

\* the orders left by CancelStopLossOrders / CancelTakeProfitOrders: when the
\* list request succeeds, a cancel request is sent for every pending order
\* of the action's ordTypes; cancelOk tells whether the venue accepts them
AfterCancel(action, listOk, cancelOk) ==
    [t \in OrdTypes |->
        IF listOk /\ t \in CancelTypes(action) /\ cancelOk THEN 0
        ELSE updOrders[t]]

\* executeUpdateStopLossWithRecord / executeUpdateTakeProfitWithRecord:
\* market.Get, GetPositions (listed is the side it lists for the symbol: the
\* cached one within 10 s, else the venue's), the validation of the new
\* price, the cancel of the old orders (its error is only logged), and
\* SetStopLoss / SetTakeProfit.
ExecuteUpdate(action, newPrice, marketOk, read, listed, listOk, cancelOk, setOk) ==
    LET found == read # "failed" /\ listed # "none"
        go    == marketOk /\ found /\ NewPriceValid(action, listed, newPrice, MarkPrice)
        left  == IF go THEN AfterCancel(action, listOk, cancelOk) ELSE updOrders
        place == go /\ setOk
        err   == IF ~marketOk THEN "market"
                 ELSE IF read = "failed" THEN "positions"
                 ELSE IF listed = "none" THEN "no position"
                 ELSE IF ~go THEN "price"
                 ELSE IF ~setOk THEN "set"
                 ELSE ""
    IN  /\ read # "cached" => listed = updPos
        /\ place => left[SetType(action)] < MaxPending
        /\ updOrders' = IF place THEN [left EXCEPT ![SetType(action)] = @ + 1]
                        ELSE left
        /\ updLast' = [action |-> action,
                       listed |-> IF read = "failed" THEN "none" ELSE listed,
                       err |-> err, before |-> updOrders,
                       cancelSent |-> IF go /\ listOk
                                      THEN {t \in CancelTypes(action) : updOrders[t] > 0}
                                      ELSE {},
                       placed |-> IF place THEN SetType(action) ELSE "none"]
        /\ UNCHANGED <<updPos, notUpdate>>

executeUpdateStopLossWithRecord(newPrice, marketOk, read, listed, listOk, cancelOk, setOk) ==
    ExecuteUpdate("update_stop_loss", newPrice, marketOk, read, listed, listOk,
                  cancelOk, setOk)

executeUpdateTakeProfitWithRecord(newPrice, marketOk, read, listed, listOk, cancelOk, setOk) ==
    ExecuteUpdate("update_take_profit", newPrice, marketOk, read, listed, listOk,
                  cancelOk, setOk)

OrderIdle == QtyIdle /\ OpenIdle /\ UpdateIdle

(***************************************************************************)
(* fetchMarketDataForContext and calculateMaxCandidates (market/           *)
(* okx_client.go, package decision): the symbols a cycle fetches market    *)
(* data for.  A symbol is a number; the i-th candidate coin is symbol i.   *)
(***************************************************************************)
\* the symbols the account can hold a position of: one that is a candidate
\* near the front of the list, and one that is no candidate at all
HeldSymbols == {5, 100}
PositionKeys == HeldSymbols \X {"long", "short"}

\* ctx.CandidateCoins of n entries
CandidateCoins(n) == [i \in 1..n |-> i]

\* calculateMaxCandidates(ctx), of len(ctx.Positions) and len(ctx.CandidateCoins)
calculateMaxCandidates_Flat(positionCount, candidates) == Min(candidates, 30)

calculateMaxCandidates(positionCount, candidates) ==
    LET maxCandidates == CASE positionCount = 0 -> 30
                           [] positionCount = 1 -> 25
                           [] positionCount = 2 -> 20
                           [] OTHER -> 15
    IN  Min(candidates, maxCandidates)

\* the symbolSet fetchMarketDataForContext collects
symbolSet(positions, coins) ==
    LET maxCandidates == calculateMaxCandidates(Cardinality(positions), Len(coins))
    IN  {pos[1] : pos \in positions}
           \cup {coins[i] : i \in {j \in 1..Len(coins) : j - 1 < maxCandidates}}

NoSelection == [called |-> FALSE, positions |-> {}, coins |-> <<>>, symbols |-> {}]

SelectIdle == selLast = NoSelection

notSelect == <<sortVars, valVars, cycleVars, adapterVars, lifeVars, monitorVars,
               syncVars, gwVars, exVars, trkVars, orderVars, histVars, lateVars>>

\* one call of fetchMarketDataForContext, as far as the symbolSet
fetchMarketDataForContext(positions, n) ==
    /\ ~selLast.called
    /\ selLast' = [called |-> TRUE, positions |-> positions,
                   coins |-> CandidateCoins(n),
                   symbols |-> symbolSet(positions, CandidateCoins(n))]
    /\ UNCHANGED notSelect

\* the cycle goes on with the prompt
SelectionUsed ==
    /\ selLast.called
    /\ selLast' = NoSelection
    /\ UNCHANGED notSelect

(***************************************************************************)
(* The history AutoTrader.buildTradingContext hands to the LLM             *)
(* (mcp/client.go).  The decision logger is not part of the sources: its   *)
(* GetLatestRecords(n) returns the n newest records, oldest first, as the  *)
(* comment at its call states, and a record carries the number of the      *)
(* cycle that wrote it.                                                    *)
(***************************************************************************)
\* decisionLogger.GetLatestRecords(n): the last n records, oldest first
GetLatestRecords(records, n) ==
    IF Len(records) <= n THEN records
    ELSE SubSeq(records, Len(records) - n + 1, Len(records))

\* the loop over historyRecords: records of the current cycle or later are
\* skipped, and the loop ends once three records are taken
RECURSIVE HistoryFrom(_, _, _, _)
HistoryFrom(historyRecords, i, cycle, historyDecisions) ==
    IF i > Len(historyRecords) THEN historyDecisions
    ELSE IF historyRecords[i] >= cycle
    THEN HistoryFrom(historyRecords, i + 1, cycle, historyDecisions)
    ELSE IF Len(historyDecisions) >= 3 THEN historyDecisions
    ELSE HistoryFrom(historyRecords, i + 1, cycle,
                     Append(historyDecisions, historyRecords[i]))

\* historyDecisions of the cycle numbered callCount
historyDecisions(records, cycle, readOk) ==
    IF readOk THEN HistoryFrom(GetLatestRecords(records, 4), 1, cycle, <<>>)
    ELSE <<>>

NoHistory == [called |-> FALSE, cycle |-> 0, earlier |-> <<>>, history |-> <<>>]

HistoryIdle ==
    /\ histCallCount = 0
    /\ histRecords = <<>>
    /\ histLast = NoHistory

notHistory == <<sortVars, valVars, cycleVars, adapterVars, lifeVars, monitorVars,
                syncVars, gwVars, exVars, trkVars, orderVars, selVars, lateVars>>

\* one cycle: at.callCount++, the history is selected from the records of
\* the cycles before, and the cycle's record is written at its end (a write
\* that fails is logged and leaves no record)
HistoryCycle(readOk, written) ==
    /\ histCallCount < MaxHistory
    /\ histCallCount' = histCallCount + 1
    /\ histLast' = [called |-> TRUE, cycle |-> histCallCount', earlier |-> histRecords,
                    history |-> historyDecisions(histRecords, histCallCount', readOk),
                    readOk |-> readOk]
    /\ histRecords' = IF written THEN Append(histRecords, histCallCount')
                      ELSE histRecords
    /\ UNCHANGED notHistory

(***************************************************************************)
(* SpecRequest: OKXTrader.makeRequest, one attempt per step, against a     *)
(* venue that places an order when it processes a place-order request.     *)
(***************************************************************************)
\* the paths a request goes to: the place-order endpoint, as OpenLong and
\* OpenShort call it, and any other endpoint
RequestPaths == {"/api/v5/trade/order", "/api/v5/account/positions"}

\* what one attempt can meet:
\*   "transient"  t.client.Do fails with a timeout, an exceeded deadline
\*                or a connection error
\*   "transport"  t.client.Do fails with any other error
\*   "read"       io.ReadAll of the response body fails
\*   "http5xx"    a status code of 500 or more
\*   "http4xx"    a status code other than 200 below 500
\*   "parse"      a 200 response whose body is not the venue's envelope
\*   "code"       a 200 response whose code is not "0"
\*   "ok"         a 200 response with code "0"
RequestOutcomes == {"transient", "transport", "read", "http5xx", "http4xx", "parse", "code", "ok"}

\* the outcomes after which the client cannot know whether the venue has
\* processed the request
OutcomeUnknown == {"transient", "transport", "read", "http5xx", "parse"}

\* maxRetries := 3
requestRetries == 3

\* the attempt is repeated: a transient transport failure, a failed read of
\* the body, or a 5xx status, on an attempt that is not the last
RetriesAfter_Any(outcome, attempt) == outcome # "ok" /\ attempt < requestRetries
RetriesAfter(outcome, attempt) ==
    /\ outcome \in {"transient", "read", "http5xx"}
    /\ attempt < requestRetries

\* waitTime := time.Duration(attempt) * 2 * time.Second
requestWaitTime(attempt) == attempt * 2

NoRequest == [active |-> FALSE, path |-> "", attempt |-> 0]
NoReturn  == [done |-> FALSE, ok |-> FALSE, err |-> ""]

RequestIdle ==
    /\ reqCall = NoRequest
    /\ reqLog = <<>>
    /\ reqWaits = <<>>
    /\ reqOrders = 0
    /\ reqReturn = NoReturn

\* makeRequest is called: for attempt := 1
RequestBegin(path) ==
    /\ ~reqCall.active
    /\ ~reqReturn.done
    /\ reqCall' = [active |-> TRUE, path |-> path, attempt |-> 1]
    /\ UNCHANGED <<reqLog, reqWaits, reqOrders, reqReturn>>
    /\ UNCHANGED notRequest

\* one pass of the loop of makeRequest: the request is sent, the venue
\* processes it or not, and the attempt is repeated after a sleep or the
\* call returns.  processed is the venue's side of an outcome the client
\* cannot tell: an accepted request has been processed, a rejected one has
\* not.
RequestAttempt(outcome, processed) ==
    /\ reqCall.active
    /\ processed = TRUE \/ outcome # "ok"
    /\ processed = FALSE \/ outcome \notin {"http4xx", "code"}
    /\ reqLog' = Append(reqLog, outcome)
    /\ reqOrders' = IF processed /\ reqCall.path = "/api/v5/trade/order"
                    THEN reqOrders + 1 ELSE reqOrders
    /\ IF RetriesAfter(outcome, reqCall.attempt)
       THEN /\ reqWaits' = Append(reqWaits, requestWaitTime(reqCall.attempt))
            /\ reqCall' = [reqCall EXCEPT !.attempt = @ + 1]
            /\ UNCHANGED reqReturn
       ELSE /\ reqCall' = [reqCall EXCEPT !.active = FALSE]
            /\ reqReturn' = [done |-> TRUE, ok |-> outcome = "ok",
                             err |-> IF outcome = "ok" THEN "" ELSE outcome]
            /\ UNCHANGED reqWaits
    /\ UNCHANGED notRequest

(***************************************************************************)
(* SpecOpenVenue: OKXTrader.OpenLong / OpenShort from their first request  *)
(* to their return, against the venue's orders and configured leverage of  *)
(* one symbol.                                                             *)
(***************************************************************************)
\* the kinds of order the venue holds for the symbol: a resting limit order,
\* a stop-loss and a take-profit
OrderKinds == {"limit", "sl", "tp"}
PosSides == {"long", "short"}
\* stop-loss prices handed to an open: none, one below and one above the
\* mark price; take-profit prices: none and one above the mark price
VenueStops == {0, MarkPrice - 1, MarkPrice + 1}
VenueProfits == {0, MarkPrice + 1}
\* the available balance: enough for one lot at leverage 1 and for two at
\* leverage 2
VenueAvailable == MarkPrice
\* quantities of one lot and of two after rounding
VenueQuantities == {4, 12}
\* the reads of an open before its checks: both succeed, GetMarketPrice
\* fails, or GetBalance fails
VenueReads == {"ok", "price", "balance"}
\* what the venue answers to set-leverage: done, an error that says the
\* leverage is "already" that value, or another error
LeverageAnswers == {"set", "already", "failed"}

NoOpenOnVenue == [called |-> FALSE]

OpenVenueIdle ==
    /\ ovOrders = {}
    /\ ovLeverage = [s \in PosSides |-> 1]
    /\ ovLast = NoOpenOnVenue

\* the orders left by CancelAllOrders: cancel-all-after, and one by one when
\* that fails; OpenLong and OpenShort log its error and go on
AfterCancelAll(orders, cancelOk) == IF cancelOk THEN {} ELSE orders

\* the leverage left by SetLeverageWithPosSide(symbol, leverage, posSide)
AfterSetLeverage(lev, posSide, leverage, answer) ==
    IF answer = "set" THEN [lev EXCEPT ![posSide] = leverage] ELSE lev

\* the protection orders an accepted order attaches (attachAlgoOrds)
Attached(stopLoss, takeProfit) ==
    (IF stopLoss > 0 THEN {"sl"} ELSE {}) \cup (IF takeProfit > 0 THEN {"tp"} ELSE {})

\* OpenLong / OpenShort(symbol, quantity, leverage, stopLoss, takeProfit):
\* CancelAllOrders, SetLeverageWithPosSide, GetMarketPrice, GetBalance,
\* FormatQuantity, the margin check, the validation of the stops, the order
OpenOnVenue(side, quantity, leverage, stopLoss, takeProfit, cancelOk, answer, read, orderOk) ==
    LET formattedQuantity == FormatQuantity(quantity, OpenLotSz, TRUE, TRUE, FALSE)
        stops == ValidateStops(side, stopLoss, takeProfit, MarkPrice, leverage)
        err == IF answer = "failed" THEN "leverage"
               ELSE IF read # "ok" THEN read
               ELSE IF MarginShort(formattedQuantity, MarkPrice, leverage,
                                   VenueAvailable)
               THEN "margin"
               ELSE IF stops # "" THEN stops
               ELSE IF ~orderOk THEN "order"
               ELSE ""
        kept == AfterCancelAll(ovOrders, cancelOk)
    IN  /\ ovOrders' = IF err = "" THEN kept \cup Attached(stopLoss, takeProfit)
                       ELSE kept
        /\ ovLeverage' = AfterSetLeverage(ovLeverage, side, leverage, answer)
        /\ ovLast' = [called |-> TRUE, err |-> err,
                      orders |-> ovOrders, leverage |-> ovLeverage]
        /\ UNCHANGED notOpenVenue

\* between two opens an order of the symbol is placed at the venue by
\* another call (a limit order, SetStopLoss, SetTakeProfit)
OrderPlacedMeanwhile(kind) ==
    /\ kind \notin ovOrders
    /\ ovOrders' = ovOrders \cup {kind}
    /\ ovLast' = NoOpenOnVenue
    /\ UNCHANGED ovLeverage
    /\ UNCHANGED notOpenVenue

(***************************************************************************)
(* SpecPartial: AutoTrader.executePartialCloseWithRecord (mcp/client.go)   *)
(* with OKXTrader.CloseLong / CloseShort called with a quantity, against   *)
(* the venue's position and protection orders of one symbol.  Amounts are  *)
(* in units of 0.0001, the lot is OpenLotSz.                               *)
(***************************************************************************)
\* amounts of a position when it is opened
PartialAmounts == {40, 100}
\* decision.ClosePercentage
ClosePercentages == {0, 25, 50, 100}
ProtectionKinds == {"sl", "tp"}

NoneHeld == [side |-> "none", amt |-> 0]
NoPartial  == [called |-> FALSE]

PartialIdle ==
    /\ pcPos = NoneHeld
    /\ pcOrders = {}
    /\ pcLast = NoPartial

\* an open fills at the venue, with the protection orders attached to it
PartialPositionOpens(side, amt, protection) ==
    /\ pcPos = NoneHeld
    /\ pcPos' = [side |-> side, amt |-> amt]
    /\ pcOrders' = protection
    /\ pcLast' = NoPartial
    /\ UNCHANGED notPartial

\* closeQuantity := totalQuantity * (decision.ClosePercentage / 100.0)
closeQuantity(totalQuantity, percentage) == (totalQuantity * percentage) \div 100

\* CloseLong / CloseShort(symbol, quantity) with quantity # 0: the
\* reduce-only market order of FormatQuantity(quantity) is filled up to the
\* amount held; after an accepted order CancelAllOrders(symbol) is called,
\* and its error is only logged
CloseWithQuantity(pos, orders, quantity, orderOk, cancelOk) ==
    LET sz == FormatQuantity(quantity, OpenLotSz, TRUE, TRUE, FALSE)
        left == pos.amt - Min(sz, pos.amt)
    IN  IF ~orderOk THEN [ok |-> FALSE, pos |-> pos, orders |-> orders]
        ELSE [ok |-> TRUE,
              pos |-> IF left = 0 THEN NoneHeld ELSE [pos EXCEPT !.amt = left],
              orders |-> IF cancelOk THEN {} ELSE orders]

\* executePartialCloseWithRecord: the check of the percentage, market.Get,
\* GetPositions, the search of the position, and CloseLong or CloseShort
\* with closeQuantity
executePartialCloseWithRecord(percentage, marketOk, readOk, orderOk, cancelOk) ==
    LET err0 == IF percentage <= 0 \/ percentage > 100 THEN "percentage"
                ELSE IF ~marketOk THEN "market"
                ELSE IF ~readOk THEN "positions"
                ELSE IF pcPos.amt = 0 THEN "no position"
                ELSE ""
        r == IF err0 = ""
             THEN CloseWithQuantity(pcPos, pcOrders,
                                    closeQuantity(pcPos.amt, percentage),
                                    orderOk, cancelOk)
             ELSE [ok |-> FALSE, pos |-> pcPos, orders |-> pcOrders]
    IN  /\ pcPos' = r.pos
        /\ pcOrders' = r.orders
        /\ pcLast' = [called |-> TRUE, percentage |-> percentage,
                      err |-> IF err0 # "" THEN err0
                              ELSE IF r.ok THEN "" ELSE "close",
                      pos |-> pcPos, orders |-> pcOrders]
        /\ UNCHANGED notPartial

(***************************************************************************)
(* SpecStreams: CombinedStreamsClient (market/combined_streams.go).  The   *)
(* caller connects, adds subscribers, subscribes streams and closes; each  *)
(* successful Connect starts one readMessages and one startHeartbeat       *)
(* goroutine; the venue sends frames of the streams subscribed on a        *)
(* connection, and a connection can be lost.                               *)
(*                                                                         *)
(* c.reconnect is a plain bool written by Close and read by                *)
(* handleReconnect with no synchronisation: the read returns the value in  *)
(* memory or the value of construction (true).                             *)
(***************************************************************************)
\* connections one behaviour dials
MaxConns == 2
Conns == 1 .. MaxConns
Streams == {"btcusdt@kline_3m", "ethusdt@kline_3m"}

NoReader == [pc |-> "none", conn |-> 0, ch |-> ""]

StreamsIdle ==
    /\ csConn = 0
    /\ csDialed = 0
    /\ csUp = [k \in Conns |-> FALSE]
    /\ csStreams = [k \in Conns |-> {}]
    /\ subscribers = {}
    /\ csChans = [s \in Streams |-> "none"]
    /\ done = "open"
    /\ reconnect = TRUE
    /\ csReader = [k \in Conns |-> NoReader]
    /\ csHeart = [k \in Conns |-> "none"]
    /\ csClosePc = "idle"
    /\ csSentOnClosed = FALSE

\* the goroutines that are in their loops
ActiveReaders == {k \in Conns : csReader[k].pc \in {"loop", "read", "send"}}
ActiveHeartbeats == {k \in Conns : csHeart[k] = "wait"}

\* Connect with a dial that succeeds within its three attempts: c.conn is
\* the new connection, go c.startHeartbeat(), go c.readMessages().  No
\* SUBSCRIBE is written.
Connected(k) ==
    /\ csDialed' = k
    /\ csConn' = k
    /\ csUp' = [csUp EXCEPT ![k] = TRUE]
    /\ UNCHANGED csStreams

\* the caller's Connect
Connect(dialOk) ==
    /\ csDialed = 0
    /\ csClosePc = "idle"
    /\ IF dialOk
       THEN /\ Connected(1)
            /\ csReader' = [csReader EXCEPT ![1] = [NoReader EXCEPT !.pc = "loop"]]
            /\ csHeart' = [csHeart EXCEPT ![1] = "wait"]
       ELSE UNCHANGED <<csDialed, csConn, csUp, csStreams, csReader, csHeart>>
    /\ UNCHANGED <<subscribers, csChans, done, reconnect, csClosePc, csSentOnClosed>>
    /\ UNCHANGED notStreams

\* AddSubscriber(stream, bufferSize)
AddSubscriber(stream) ==
    /\ csClosePc = "idle"
    /\ stream \notin subscribers
    /\ subscribers' = subscribers \cup {stream}
    /\ csChans' = [csChans EXCEPT ![stream] = "open"]
    /\ UNCHANGED <<csConn, csDialed, csUp, csStreams, done, reconnect, csReader,
                   csHeart, csClosePc, csSentOnClosed>>
    /\ UNCHANGED notStreams

\* subscribeStreams(streams), as BatchSubscribeKlines calls it: SUBSCRIBE is
\* written on c.conn
subscribeStreams(streams) ==
    /\ csClosePc = "idle"
    /\ csConn # 0
    /\ csUp[csConn]
    /\ ~(streams \subseteq csStreams[csConn])
    /\ csStreams' = [csStreams EXCEPT ![csConn] = @ \cup streams]
    /\ UNCHANGED <<csConn, csDialed, csUp, subscribers, csChans, done, reconnect,
                   csReader, csHeart, csClosePc, csSentOnClosed>>
    /\ UNCHANGED notStreams

\* the network drops a connection
ConnectionLost(k) ==
    /\ csUp[k]
    /\ csUp' = [csUp EXCEPT ![k] = FALSE]
    /\ UNCHANGED <<csConn, csDialed, csStreams, subscribers, csChans, done,
                   reconnect, csReader, csHeart, csClosePc, csSentOnClosed>>
    /\ UNCHANGED notStreams

\* readMessages, top of the loop: case <-c.done: return; default: conn :=
\* c.conn under the read lock, and a nil conn sleeps a second
ReaderLoop(k) ==
    /\ csReader[k].pc = "loop"
    /\ csReader' = [csReader EXCEPT ![k] =
          IF done = "closed" THEN [@ EXCEPT !.pc = "exit"]
          ELSE IF csConn = 0 THEN @
          ELSE [@ EXCEPT !.pc = "read", !.conn = csConn]]
    /\ done = "open" => csConn # 0
    /\ UNCHANGED <<csConn, csDialed, csUp, csStreams, subscribers, csChans, done,
                   reconnect, csHeart, csClosePc, csSentOnClosed>>
    /\ UNCHANGED notStreams

\* conn.ReadMessage returns a frame of a stream subscribed on the
\* connection; handleCombinedMessage looks the channel up under the read
\* lock and releases the lock
ReaderMessage(k, stream) ==
    /\ csReader[k].pc = "read"
    /\ csUp[csReader[k].conn]
    /\ stream \in csStreams[csReader[k].conn]
    /\ csReader' = [csReader EXCEPT ![k] =
          IF stream \in subscribers THEN [@ EXCEPT !.pc = "send", !.ch = stream]
          ELSE [@ EXCEPT !.pc = "loop"]]
    /\ UNCHANGED <<csConn, csDialed, csUp, csStreams, subscribers, csChans, done,
                   reconnect, csHeart, csClosePc, csSentOnClosed>>
    /\ UNCHANGED notStreams

\* handleCombinedMessage: select { case ch <- combinedMsg.Data: default: },
\* after the lock was released; a send on a closed channel panics
ReaderSend(k) ==
    /\ csReader[k].pc = "send"
    /\ csSentOnClosed' = (csSentOnClosed \/ csChans[csReader[k].ch] = "closed")
    /\ csReader' = [csReader EXCEPT ![k] =
          IF csChans[@.ch] = "closed" THEN [@ EXCEPT !.pc = "panicked"]
          ELSE [@ EXCEPT !.pc = "loop", !.ch = ""]]
    /\ UNCHANGED <<csConn, csDialed, csUp, csStreams, subscribers, csChans, done,
                   reconnect, csHeart, csClosePc>>
    /\ UNCHANGED notStreams

\* conn.ReadMessage returns an error: a normal close ends the goroutine;
\* the 60-second deadline, a lost connection or a connection Close has
\* closed call handleReconnect
ReaderError(k, normalClose) ==
    /\ csReader[k].pc = "read"
    /\ normalClose => ~csUp[csReader[k].conn]
    /\ csReader' = [csReader EXCEPT ![k] =
          [@ EXCEPT !.pc = IF normalClose THEN "exit" ELSE "reconnect"]]
    /\ UNCHANGED <<csConn, csDialed, csUp, csStreams, subscribers, csChans, done,
                   reconnect, csHeart, csClosePc, csSentOnClosed>>
    /\ UNCHANGED notStreams

\* startHeartbeat: case <-c.done: return
HeartbeatDone(k) ==
    /\ csHeart[k] = "wait"
    /\ done = "closed"
    /\ csHeart' = [csHeart EXCEPT ![k] = "exit"]
    /\ UNCHANGED <<csConn, csDialed, csUp, csStreams, subscribers, csChans, done,
                   reconnect, csReader, csClosePc, csSentOnClosed>>
    /\ UNCHANGED notStreams

\* startHeartbeat: case <-ticker.C: a ping on c.conn, when it is not nil; a
\* failed ping calls handleReconnect
HeartbeatTick(k, pingOk) ==
    /\ csHeart[k] = "wait"
    /\ pingOk \/ (csConn # 0 /\ ~csUp[csConn])
    /\ csHeart' = [csHeart EXCEPT ![k] = IF pingOk THEN "wait" ELSE "reconnect"]
    /\ UNCHANGED <<csConn, csDialed, csUp, csStreams, subscribers, csChans, done,
                   reconnect, csReader, csClosePc, csSentOnClosed>>
    /\ UNCHANGED notStreams

\* handleReconnect in the goroutine of a reader or of a heartbeat: the
\* check of c.reconnect, the 10-second sleep, and Connect.  After a dial
\* that failed three times the retry goroutine calls handleReconnect again,
\* 30 seconds later: the goroutine's place is kept for it.
handleReconnect(task, k, seen, dialOk) ==
    LET pc == IF task = "reader" THEN csReader[k].pc ELSE csHeart[k]
        next == IF ~seen THEN "exit"
                ELSE IF dialOk THEN "exit"
                ELSE "reconnect"
        n == csDialed + 1
        ok == seen /\ dialOk
    IN  /\ pc = "reconnect"
        /\ seen \in {reconnect, TRUE}
        /\ ok => n \in Conns
        /\ IF ok THEN Connected(n)
           ELSE UNCHANGED <<csDialed, csConn, csUp, csStreams>>
        /\ csReader' = [j \in Conns |->
              IF ok /\ j = n THEN [NoReader EXCEPT !.pc = "loop"]
              ELSE IF task = "reader" /\ j = k THEN [csReader[j] EXCEPT !.pc = next]
              ELSE csReader[j]]
        /\ csHeart' = [j \in Conns |->
              IF ok /\ j = n THEN "wait"
              ELSE IF task = "heartbeat" /\ j = k THEN next
              ELSE csHeart[j]]
        /\ UNCHANGED <<subscribers, csChans, done, reconnect, csClosePc,
                       csSentOnClosed>>
        /\ UNCHANGED notStreams

\* Close, before the lock: c.reconnect = false; close(c.done)
CloseBegin ==
    /\ csClosePc = "idle"
    /\ reconnect' = FALSE
    /\ done' = "closed"
    /\ csClosePc' = "locking"
    /\ UNCHANGED <<csConn, csDialed, csUp, csStreams, subscribers, csChans,
                   csReader, csHeart, csSentOnClosed>>
    /\ UNCHANGED notStreams

\* Close, under the write lock: the connection is closed and c.conn is nil;
\* every subscriber channel is closed and deleted
CloseLocked ==
    /\ csClosePc = "locking"
    /\ csUp' = [k \in Conns |-> csUp[k] /\ k # csConn]
    /\ csConn' = 0
    /\ csChans' = [s \in Streams |-> IF s \in subscribers THEN "closed" ELSE csChans[s]]
    /\ subscribers' = {}
    /\ csClosePc' = "returned"
    /\ UNCHANGED <<csDialed, csStreams, done, reconnect, csReader, csHeart,
                   csSentOnClosed>>
    /\ UNCHANGED notStreams

LateIdle == RequestIdle /\ OpenVenueIdle /\ PartialIdle /\ StreamsIdle
LastIdle == SelectIdle /\ HistoryIdle /\ LateIdle

(***************************************************************************)
(* Specifications.                                                         *)
(***************************************************************************)
MoreIdle ==
    /\ MonitorIdle /\ SyncIdle /\ GwIdle /\ ExIdle /\ TrackIdle /\ OrderIdle
    /\ LastIdle

InitSort ==
    /\ sortPc = "input"
    /\ sortIn \in BoundedSeq(SortDecisions, MaxLen)
    /\ sortOut = <<>>
    /\ ValIdle /\ CycleIdle /\ AdapterIdle /\ LifeIdle /\ MoreIdle
NextSort == ApplySort
SpecSort == InitSort /\ [][NextSort]_vars

InitValidate ==
    /\ valPc = "input"
    /\ valDecision \in ValDecisions
    /\ valConfig \in ValConfigs
    /\ valResult = ""
    /\ SortIdle /\ CycleIdle /\ AdapterIdle /\ LifeIdle /\ MoreIdle
NextValidate == ApplyValidate
SpecValidate == InitValidate /\ [][NextValidate]_vars

InitCycle == SortIdle /\ ValIdle /\ CycleIdle /\ AdapterIdle /\ LifeIdle /\ MoreIdle
NextCycle ==
    \/ /\ cyclePc = "idle" /\ callCount < MaxCycles
       /\ \E ctxOk \in BOOLEAN, resp \in LLMResponses : CycleBegin(ctxOk, resp)
    \/ \E err \in {"", "exchange", "unknown action"} : ExecuteDecision(err)
    \/ CycleEnd
    \/ CycleReturn
SpecCycle == InitCycle /\ [][NextCycle]_vars

InitAdapter == SortIdle /\ ValIdle /\ CycleIdle /\ AdapterIdle /\ LifeIdle /\ MoreIdle
NextAdapter ==
    \/ AdvanceTime
    \/ \E apiOk \in BOOLEAN : GetBalance(apiOk)
    \/ \E apiOk \in BOOLEAN : GetPositions(apiOk)
    \/ \E s \in AdSymbols, apiOk \in BOOLEAN : CancelAllOrders(s, apiOk)
    \/ \E s \in AdSymbols, apiOk \in BOOLEAN : SetStopLoss(s, apiOk)
    \/ \E s \in AdSymbols, apiOk \in BOOLEAN : SetTakeProfit(s, apiOk)
    \* the venue's answer to a request that is never sent is not an input
    \/ \E s \in AdSymbols, q \in 0 .. MaxQty, posApiOk, orderOk, cancelOk \in BOOLEAN :
          /\ q # 0 => posApiOk
          /\ ~posApiOk => orderOk
          /\ ~orderOk => cancelOk
          /\ CloseLong(s, q, posApiOk, orderOk, cancelOk)
    \/ \E s \in AdSymbols, q \in 1 .. MaxQty, attach \in Attachments,
             cancelOk, prepOk, balApiOk, orderOk \in BOOLEAN :
          /\ ~prepOk => balApiOk
          /\ ~balApiOk => orderOk
          /\ ~orderOk => attach = {}
          /\ OpenLong(s, q, attach, cancelOk, prepOk, balApiOk, orderOk)
SpecAdapter == InitAdapter /\ [][NextAdapter]_vars

InitLife == SortIdle /\ ValIdle /\ CycleIdle /\ AdapterIdle /\ LifeIdle /\ MoreIdle
NextLife ==
    \/ \E r \in Runs : RunCall(r)
    \/ \E r \in Runs : startDrawdownMonitor(r)
    \/ \E r \in Runs : RunFirstCycle(r)
    \/ \E r \in Runs : RunCycleDone(r)
    \/ \E r \in Runs, seen \in BOOLEAN : RunLoopCheck(r, seen)
    \/ \E r \in Runs : RunTick(r)
    \/ \E m \in Runs : MonitorTick(m)
    \/ \E m \in Runs : MonitorChecked(m)
    \/ \E m \in Runs : MonitorStopped(m)
    \/ \E s \in Stops : StopCall(s)
    \/ \E s \in Stops : StopClose(s)
    \/ \E s \in Stops : StopWait(s)
SpecLife == InitLife /\ [][NextLife]_vars

InitMonitor == SortIdle /\ ValIdle /\ CycleIdle /\ AdapterIdle /\ LifeIdle /\ MoreIdle
NextMonitor ==
    \/ \E k \in MKeys, ret \in ReturnValues : PositionOpened(k, ret)
    \/ \E k \in MKeys, ret \in ReturnValues : PriceMoved(k, ret)
    \/ \E k \in MKeys : PositionClosed(k)
    \/ \E fetchOk \in BOOLEAN, closeOk \in [MKeys -> BOOLEAN] :
          \E list \in Orderings({k \in MKeys : mPos[k].open}) :
             \* the answer to a close that is never sent is not an input
             /\ \A k \in MKeys : (~fetchOk \/ ~mPos[k].open) => closeOk[k]
             /\ checkPositionDrawdown(fetchOk, list, closeOk)
SpecMonitor == InitMonitor /\ [][NextMonitor]_vars

InitSync == SortIdle /\ ValIdle /\ CycleIdle /\ AdapterIdle /\ LifeIdle /\ MoreIdle
NextSync ==
    \/ \E configured \in ConfigBalances, db \in {"nil", "store"} :
          NewAutoTrader(configured, db)
    \/ SyncTimePasses
    \/ \E fetchOk, dbOk \in BOOLEAN, available \in AvailableBalances :
          autoSyncBalanceIfNeeded(fetchOk, available, dbOk)
SpecSync == InitSync /\ [][NextSync]_vars

InitGateway == SortIdle /\ ValIdle /\ CycleIdle /\ AdapterIdle /\ LifeIdle /\ MoreIdle
NextGateway ==
    \/ \E apiKeySet \in BOOLEAN : CallWithMessages(apiKeySet)
    \/ \E resp \in Responses : Attempt(resp)
    \/ Sleep
    \/ GatewayDone
SpecGateway == InitGateway /\ [][NextGateway]_vars

InitExtract == SortIdle /\ ValIdle /\ CycleIdle /\ AdapterIdle /\ LifeIdle /\ MoreIdle
NextExtract ==
    \/ \E text \in ExTexts : ResponseReceived(text)
    \/ ExtractDecisions
SpecExtract == InitExtract /\ [][NextExtract]_vars

InitTrack == SortIdle /\ ValIdle /\ CycleIdle /\ AdapterIdle /\ LifeIdle /\ MoreIdle
NextTrack ==
    \/ TrkTimePasses
    \/ \E posApiOk, orderOk \in BOOLEAN : executeOpenLongWithRecord(posApiOk, orderOk)
    \/ \E posApiOk, orderOk \in BOOLEAN : executeOpenShortWithRecord(posApiOk, orderOk)
    \/ \E side \in Sides : TrkPositionCloses(side)
    \/ \E balOk, posApiOk \in BOOLEAN : buildTradingContext(balOk, posApiOk)
SpecTrack == InitTrack /\ [][NextTrack]_vars

InitQuantity == SortIdle /\ ValIdle /\ CycleIdle /\ AdapterIdle /\ LifeIdle /\ MoreIdle
NextQuantity ==
    \/ qtyCall = NoQtyCall /\ \E quantity \in Quantities, lotSz \in LotSizes, precOk, lotOk, tieUp \in BOOLEAN :
          FormatQuantityCalled(quantity, lotSz, precOk, lotOk, tieUp)
    \/ qtyCall = NoQtyCall /\ \E lotSz \in LotSizes, n, m \in PositionLots, read \in PositionReads,
          precOk, lotOk, orderOk \in BOOLEAN :
          CloseLongZero(lotSz, n * lotSz, m * lotSz, read, precOk, lotOk, orderOk)
    \/ qtyCall = NoQtyCall /\ \E lotSz \in LotSizes, n, m \in PositionLots, read \in PositionReads,
          precOk, lotOk, orderOk \in BOOLEAN :
          CloseShortZero(lotSz, n * lotSz, m * lotSz, read, precOk, lotOk, orderOk)
    \/ QuantityReturned
SpecQuantity == InitQuantity /\ [][NextQuantity]_vars

InitOpen == SortIdle /\ ValIdle /\ CycleIdle /\ AdapterIdle /\ LifeIdle /\ MoreIdle
NextOpen ==
    \/ /\ opnCall = NoOpenCall
       /\ \E quantity \in OpenQuantities, leverage \in 1..MaxLeverage,
             stopLoss, takeProfit \in StopPrices, venueBalance, cachedBal \in Balances,
             read \in BalanceReads, leverOk, priceOk, orderOk \in BOOLEAN :
             OpenLongChecks(quantity, leverage, stopLoss, takeProfit, venueBalance,
                         cachedBal, read, leverOk, priceOk, orderOk)
    \/ /\ opnCall = NoOpenCall
       /\ \E quantity \in OpenQuantities, leverage \in 1..MaxLeverage,
             stopLoss, takeProfit \in StopPrices, venueBalance, cachedBal \in Balances,
             read \in BalanceReads, leverOk, priceOk, orderOk \in BOOLEAN :
             OpenShortChecks(quantity, leverage, stopLoss, takeProfit, venueBalance,
                          cachedBal, read, leverOk, priceOk, orderOk)
    \/ OpenReturned
SpecOpen == InitOpen /\ [][NextOpen]_vars

InitUpdate == SortIdle /\ ValIdle /\ CycleIdle /\ AdapterIdle /\ LifeIdle /\ MoreIdle
NextUpdate ==
    \/ \E side \in UpdPositions : UpdPositionChanges(side)
    \/ \E ordType \in OrdTypes : UpdOrderPending(ordType)
    \/ \E newPrice \in {MarkPrice - 1, MarkPrice + 1}, read \in PositionReads,
          listed \in UpdPositions, marketOk, listOk, cancelOk, setOk \in BOOLEAN :
          executeUpdateStopLossWithRecord(newPrice, marketOk, read, listed, listOk,
                                          cancelOk, setOk)
    \/ \E newPrice \in {MarkPrice - 1, MarkPrice + 1}, read \in PositionReads,
          listed \in UpdPositions, marketOk, listOk, cancelOk, setOk \in BOOLEAN :
          executeUpdateTakeProfitWithRecord(newPrice, marketOk, read, listed, listOk,
                                            cancelOk, setOk)
SpecUpdate == InitUpdate /\ [][NextUpdate]_vars

InitSelect == SortIdle /\ ValIdle /\ CycleIdle /\ AdapterIdle /\ LifeIdle /\ MoreIdle
NextSelect ==
    \/ \E positions \in SUBSET PositionKeys, n \in 0..MaxCandidates :
          fetchMarketDataForContext(positions, n)
    \/ SelectionUsed
SpecSelect == InitSelect /\ [][NextSelect]_vars

InitHistory == SortIdle /\ ValIdle /\ CycleIdle /\ AdapterIdle /\ LifeIdle /\ MoreIdle
NextHistory ==
    \/ \E readOk, written \in BOOLEAN : HistoryCycle(readOk, written)
SpecHistory == InitHistory /\ [][NextHistory]_vars

InitRequest == SortIdle /\ ValIdle /\ CycleIdle /\ AdapterIdle /\ LifeIdle /\ MoreIdle
NextRequest ==
    \/ \E path \in RequestPaths : RequestBegin(path)
    \/ \E outcome \in RequestOutcomes, processed \in BOOLEAN : RequestAttempt(outcome, processed)
SpecRequest == InitRequest /\ [][NextRequest]_vars

InitOpenVenue == SortIdle /\ ValIdle /\ CycleIdle /\ AdapterIdle /\ LifeIdle /\ MoreIdle
NextOpenVenue ==
    \/ \E side \in PosSides, quantity \in VenueQuantities, leverage \in 1..MaxLeverage,
          stopLoss \in VenueStops, takeProfit \in VenueProfits,
          cancelOk, orderOk \in BOOLEAN, answer \in LeverageAnswers, read \in VenueReads :
          OpenOnVenue(side, quantity, leverage, stopLoss, takeProfit,
                      cancelOk, answer, read, orderOk)
    \/ \E kind \in OrderKinds : OrderPlacedMeanwhile(kind)
SpecOpenVenue == InitOpenVenue /\ [][NextOpenVenue]_vars

InitPartial == SortIdle /\ ValIdle /\ CycleIdle /\ AdapterIdle /\ LifeIdle /\ MoreIdle
NextPartial ==
    \/ \E side \in PosSides, amt \in PartialAmounts, protection \in SUBSET ProtectionKinds :
          PartialPositionOpens(side, amt, protection)
    \/ \E percentage \in ClosePercentages, marketOk, readOk, orderOk, cancelOk \in BOOLEAN :
          executePartialCloseWithRecord(percentage, marketOk, readOk, orderOk, cancelOk)
SpecPartial == InitPartial /\ [][NextPartial]_vars

InitStreams == SortIdle /\ ValIdle /\ CycleIdle /\ AdapterIdle /\ LifeIdle /\ MoreIdle
NextStreams ==
    \/ \E dialOk \in BOOLEAN : Connect(dialOk)
    \/ \E stream \in Streams : AddSubscriber(stream)
    \/ \E streams \in SUBSET Streams : subscribeStreams(streams)
    \/ \E k \in Conns : ConnectionLost(k)
    \/ \E k \in Conns : ReaderLoop(k)
    \/ \E k \in Conns, stream \in Streams : ReaderMessage(k, stream)
    \/ \E k \in Conns : ReaderSend(k)
    \/ \E k \in Conns, normalClose \in BOOLEAN : ReaderError(k, normalClose)
    \/ \E k \in Conns : HeartbeatDone(k)
    \/ \E k \in Conns, pingOk \in BOOLEAN : HeartbeatTick(k, pingOk)
    \/ \E task \in {"reader", "heartbeat"}, k \in Conns, seen, dialOk \in BOOLEAN : handleReconnect(task, k, seen, dialOk)
    \/ CloseBegin
    \/ CloseLocked
SpecStreams == InitStreams /\ [][NextStreams]_vars

(***************************************************************************)
(* Claims.                                                                 *)
(***************************************************************************)
\* the priority ranks as the specification states them
ClaimRank(action) ==
    CASE action \in {"close_long", "close_short", "partial_close"} -> 1
      [] action \in {"update_stop_loss", "update_take_profit"} -> 2
      [] action \in {"open_long", "open_short"} -> 3
      [] OTHER -> 4

Last(s) == s[Len(s)]

\* C1: within a cycle the actions are executed in non-decreasing priority
\* rank, whatever order the LLM supplied them in: no action of a higher rank
\* number is executed before an action of a lower rank number, and only
\* decisions of the LLM's list are executed.
C1_ExecutedInPriorityOrder ==
    /\ \A i, j \in 1..Len(executed) :
          i < j => ClaimRank(executed[i].action) <= ClaimRank(executed[j].action)
    /\ \A i \in 1..Len(executed) : \E k \in 1..Len(llmDecisions) : executed[i] = llmDecisions[k]

\* C1 witness: a finished cycle whose LLM list had an open before a close,
\* executed close first.
C1_Witness ==
    /\ cyclePc = "returning" /\ Len(llmDecisions) = 2
    /\ ClaimRank(llmDecisions[1].action) = 3
    /\ ClaimRank(llmDecisions[2].action) = 1
    /\ executed = <<llmDecisions[2], llmDecisions[1]>>

\* C2: sortDecisionsByPriority is stable: the decisions of one priority rank
\* appear in the sorted list in the order they have in the input list.
C2_SortIsStable ==
    sortPc = "sorted" =>
        \A r \in 1..4 :
            SelectSeq(sortOut, LAMBDA d : ClaimRank(d.action) = r)
                = SelectSeq(sortIn, LAMBDA d : ClaimRank(d.action) = r)

\* C3: a GetPositions or GetBalance answer served from the cache is never a
\* snapshot taken before a mutation that has succeeded since: after a
\* successful open, close, set-stop-loss, set-take-profit or cancel the next
\* read is fetched anew, even less than CacheDuration after the last fetch.
C3_ReadAfterMutationIsFresh ==
    /\ (adLast.op = "GetPositions" /\ adLast.ok /\ adLast.cached) => ~posDirty
    /\ (adLast.op = "GetBalance" /\ adLast.ok /\ adLast.cached) => ~balDirty

\* C4: if any single decision of the LLM's list fails validation, no action
\* of that list is executed in the cycle and the cycle's record is written
\* with Success = FALSE and no per-action entry.
C4_OneRejectionRejectsTheList ==
    (\E i \in 1..Len(llmDecisions) :
        validateDecision(llmDecisions[i], CycleConfig.BTCETHLeverage,
                         CycleConfig.AltcoinLeverage) # "")
    => /\ executed = <<>>
       /\ cyclePc = "returning"
       /\ Len(journal) = callCount
       /\ Last(journal).Success = FALSE
       /\ Last(journal).Actions = 0
       /\ record.Success = FALSE
       /\ record.Decisions = <<>>

\* C4 witness: a list rejected for its second decision, the first being valid.
C4_Witness ==
    /\ cycleError = "validation" /\ Len(llmDecisions) = 2
    /\ validateDecision(llmDecisions[1], CycleConfig.BTCETHLeverage,
                        CycleConfig.AltcoinLeverage) = ""
    /\ llmDecisions[1].action \in OpenActions
    /\ validateDecision(llmDecisions[2], CycleConfig.BTCETHLeverage,
                        CycleConfig.AltcoinLeverage) # ""
    /\ Len(journal) = 1 /\ ~journal[1].Success

\* the leverage ceiling the specification states for a symbol
ClaimCeiling(symbol, cfg) ==
    IF symbol \in {"BTCUSDT", "ETHUSDT"} THEN cfg.BTCETHLeverage ELSE cfg.AltcoinLeverage

\* C5: the validator accepts an open_long / open_short decision only if
\* 1 <= leverage <= ceiling, the ceiling being the BTC/ETH leverage for
\* BTCUSDT and ETHUSDT and the altcoin leverage for every other symbol.
C5_OpenLeverageWithinCeiling ==
    (valPc = "validated" /\ valDecision.action \in OpenActions /\ valResult = "")
    => /\ 1 <= valDecision.leverage
       /\ valDecision.leverage <= ClaimCeiling(valDecision.symbol, valConfig)

\* C5 witness: an altcoin open at exactly the altcoin ceiling is accepted
\* where the BTC/ETH ceiling is higher.
C5_Witness ==
    /\ valPc = "validated" /\ valDecision.action = "open_long"
    /\ valDecision.symbol = "SOLUSDT"
    /\ valConfig.AltcoinLeverage < valConfig.BTCETHLeverage
    /\ valDecision.leverage = valConfig.AltcoinLeverage
    /\ valResult = ""

\* C6: every open_long / open_short decision whose position_size_usd is not
\* strictly positive is rejected by the validator, so no open action with a
\* non-positive notional is handed to the execution sequencer.
C6_NoNonPositiveOpenExecuted ==
    \A i \in 1..Len(executed) :
        executed[i].action \in OpenActions => executed[i].position_size_usd > 0

\* C7: once Stop has been called (and Run not called again), no tick of the
\* cycle ticker makes the loop of Run call runCycle.
C7_NoCycleOnTickAfterStop ==
    [][stopRequested =>
         \A r \in Runs : ~(runPc[r] = "select" /\ runPc'[r] = "inCycle")]_vars

\* C8: at the moment Stop returns, every drawdown monitor has terminated and
\* no call of runCycle is in flight.
C8_StopReturnsAfterCycleAndMonitor ==
    [][\A s \in Stops :
         (stopPc[s] = "wait" /\ stopPc'[s] = "returned") =>
             /\ \A r \in Runs : runPc'[r] # "inCycle"
             /\ \A m \in Runs : monPc'[m] \notin {"select", "checking"}]_vars

\* C9: at every moment the trader has at most one cycle loop (a call of Run
\* that has not returned) and at most one live drawdown monitor, however
\* often Run is called.
C9_AtMostOneLoopAndMonitor ==
    /\ Cardinality({r \in Runs : runPc[r] \notin {"idle", "returned"}}) <= 1
    /\ Cardinality({m \in Runs : monPc[m] \in {"select", "checking"}}) <= 1

\* C10: a call of Stop on a stopped trader (never started, or after a Stop
\* that completed), overlapping no other call, does not panic.
C10_StopOnStoppedDoesNotCrash ==
    \A s \in Stops : quietStop[s] => stopPc[s] # "panicked"

\* C11: at most one call of runCycle of the trader is in flight at any time,
\* when every Run was called on a stopped trader after the Stop before it
\* had returned.
C11_AtMostOneCycleInFlight ==
    properStart => Cardinality({r \in Runs : runPc[r] = "inCycle"}) <= 1

\* the peak after the tick's update, as the specification uses it
ClaimPeak(e) == Max(e.peak, e.current)

C13_PeakBelongsToThePosition ==
    \A i \in DOMAIN mLog :
        LET e == mLog[i]
        IN  ClaimPeak(e) = IF e.life.seen THEN Max(e.life.v, e.current)
                           ELSE e.current

\* the deviation the specification tests: |available - declared| / declared > 5%
ClaimDeviates(declared, available) ==
    Abs(available - declared) * 100 > 5 * declared

\* C14 as stated: a sync that is due (10 minutes since the last) and fetches
\* an available balance deviating by more than 5% replaces the declared
\* initial balance by the fetched value and persists it; otherwise the
\* declared initial balance is unchanged.
C14_SyncReplacesOnDeviation ==
    syncLast.called =>
        IF syncLast.due /\ syncLast.fetchOk
              /\ ClaimDeviates(syncLast.old, syncLast.available)
        THEN /\ initialBalance = syncLast.available
             /\ storeBalance = [set |-> TRUE, v |-> syncLast.available]
        ELSE initialBalance = syncLast.old

\* C14 amended: the replacement happens when, in addition, the fetched
\* available balance is strictly positive; the store is asked to persist the
\* new value when one is attached; in every other case the declared initial
\* balance is unchanged.
C14_SyncReplacesPositiveDeviation ==
    syncLast.called =>
        IF syncLast.due /\ syncLast.fetchOk /\ syncLast.available > 0
              /\ ClaimDeviates(syncLast.old, syncLast.available)
        THEN /\ initialBalance = syncLast.available
             /\ syncLast.stored <=> database = "store"
        ELSE /\ initialBalance = syncLast.old
             /\ ~syncLast.stored

\* C14 witness: declared 100, venue reports 120 when a sync is due: replaced
\* and persisted.
C14_Witness ==
    /\ syncLast.called /\ syncLast.due /\ syncLast.old = 100
    /\ syncLast.available = 120 /\ initialBalance = 120
    /\ storeBalance = [set |-> TRUE, v |-> 120]

\* C15: the declared initial balance of a constructed trader is strictly
\* positive in every reachable state, and no trader is constructed from a
\* non-positive configured value.
C15_InitialBalancePositive ==
    /\ syncPc = "ready" => initialBalance > 0
    /\ syncPc = "rejected" => initialBalance = 0 /\ ~syncLast.called

\* C15 witness: a sync that was due met a venue reporting zero available
\* balance, and one whose fetch failed, and the balance stayed positive.
C15_Witness ==
    /\ syncLast.called /\ syncLast.due
    /\ (~syncLast.fetchOk \/ syncLast.available <= 0)
    /\ initialBalance > 0

\* the cycle the trader is in, or has just ended, went through the execution
\* loop (it passed context build, LLM call, validation and had decisions)
CycleExecuted == cyclePc = "returning" /\ cycleError = ""

C17_FailureDoesNotAbortTheList ==
    /\ cyclePc = "executing" =>
          /\ Len(record.Decisions) = execIdx - 1
          /\ executed = SubSeq(sortedDecisions, 1, execIdx - 1)
    /\ CycleExecuted =>
          /\ executed = sortedDecisions
          /\ Len(sortedDecisions) = Len(llmDecisions)
          /\ Len(record.Decisions) = Len(sortedDecisions)
          /\ \A i \in 1..Len(sortedDecisions) :
                /\ record.Decisions[i].Action = sortedDecisions[i].action
                /\ record.Decisions[i].Symbol = sortedDecisions[i].symbol
                /\ record.Decisions[i].Success = (record.Decisions[i].Error = "")
          /\ record.Success = (\A i \in 1..Len(record.Decisions) :
                                  record.Decisions[i].Success)
          /\ Last(journal).Actions = Len(sortedDecisions)
          /\ Last(journal).Success = record.Success

\* C17 witness: the first of two actions failed, the second was still
\* attempted and succeeded, and the record written is marked failed.
C17_Witness ==
    /\ CycleExecuted /\ Len(record.Decisions) = 2
    /\ ~record.Decisions[1].Success /\ record.Decisions[1].Error # ""
    /\ record.Decisions[2].Success
    /\ ~Last(journal).Success /\ Last(journal).Actions = 2

\* C18: a cycle-level error (context build, LLM call, validation) ends the
\* cycle before any action is executed and with a record written with
\* Success = FALSE; it does not stop the loop, which is back waiting for the
\* next tick, where a new cycle can start.
C18_CycleErrorDoesNotStopTheLoop ==
    /\ cyclePc \in {"idle", "executing", "returning"}
    /\ (cyclePc = "returning" /\ cycleError \notin {"", "empty"}) =>
          /\ executed = <<>>
          /\ record.Decisions = <<>>
          /\ ~Last(journal).Success
          /\ Last(journal).Actions = 0
          /\ Last(journal).ErrorMessage = cycleError
    /\ (cyclePc = "idle" /\ callCount < MaxCycles) =>
          ENABLED (\E resp \in LLMResponses : CycleBegin(TRUE, resp))

\* C18 witness: the first cycle failed at cycle level, and the second cycle
\* has executed an action successfully.
C18_Witness ==
    /\ callCount = 2 /\ Len(journal) = 1
    /\ ~journal[1].Success /\ journal[1].Actions = 0
    /\ journal[1].ErrorMessage \notin {"", "empty"}
    /\ cyclePc = "executing" /\ Len(record.Decisions) >= 1
    /\ record.Decisions[1].Success

\* the attempts of the call before its last one
EarlierAttempts == 1..(Len(gwLog) - 1)

\* C19: one call of CallWithMessages makes at most five attempts; it returns
\* the first successful response; it stops at the first non-retryable error,
\* without a further attempt and without a pause; and it returns an error
\* after the fifth failed attempt.  Every attempt but the last one failed
\* with a retryable error and was followed by one pause.
C19_AtMostFiveAttempts ==
    /\ Len(gwLog) <= 5
    /\ gwPc = "attempt" => (Len(gwLog) = gwAttempt - 1 /\ Len(gwWaits) = Len(gwLog))
    /\ gwPc = "sleeping" =>
          (Len(gwLog) < 5 /\ Len(gwWaits) = Len(gwLog) - 1
           /\ ~Last(gwLog).ok /\ Last(gwLog).retryable)
    /\ gwPc \in {"attempt", "sleeping"} => ~gwReturn.returned
    /\ \A i \in EarlierAttempts : ~gwLog[i].ok /\ gwLog[i].retryable
    /\ (gwPc = "returned" /\ gwLog # <<>>) =>
          /\ gwReturn.returned
          /\ Len(gwWaits) = Len(gwLog) - 1
          /\ Last(gwLog).ok =>
                (gwReturn.err = <<>> /\ gwReturn.result = Last(gwLog).resp.body)
          /\ ~Last(gwLog).ok => gwReturn.err # <<>>
          /\ (~Last(gwLog).ok /\ Last(gwLog).retryable) => Len(gwLog) = 5

\* C19 witness: a call that returned an error after five failed attempts,
\* with the four pauses 2, 4, 8 and 16 seconds between them.
C19_Witness ==
    /\ gwPc = "returned" /\ Len(gwLog) = 5 /\ gwReturn.err # <<>>
    /\ gwWaits = <<2, 4, 8, 16>>

\* the classification the specification states for an HTTP error response
ClaimRetryable(status) == status >= 500 \/ status \in {408, 429}

\* C20: the gateway treats every HTTP 5xx response and the 4xx codes 408 and
\* 429 as retryable, and every other 4xx response as non-retryable, whatever
\* the text of the response body.
C20_RetryableByStatus ==
    \A i \in 1..Len(gwLog) :
        (gwLog[i].resp.kind = "http" /\ gwLog[i].resp.status # 200) =>
            (gwLog[i].retryable <=> ClaimRetryable(gwLog[i].resp.status))

\* the text, once repaired, has an opening "[" "{" with a closing "}" "]"
\* somewhere after it
ClaimHasArray(text) ==
    \E i, j \in 1..Len(text) :
        /\ i + 1 < j
        /\ text[i] \in {"[", "FW["} /\ text[i + 1] = "{"
        /\ text[j] = "}" /\ j + 1 <= Len(text) /\ text[j + 1] = "]"

\* C21: when the response text has no JSON array of decision objects after
\* repair, extractDecisions returns exactly one decision, its action is wait,
\* and no error; the list passes validation and, sorted, has no action that
\* reaches the exchange.
C21_NoArrayYieldsOneWait ==
    (exPc = "extracted" /\ ~ClaimHasArray(exText)) =>
        /\ exResult.err = ""
        /\ Len(exResult.decisions) = 1
        /\ exResult.decisions[1].action = "wait"
        /\ validateDecisions(exResult.decisions, CycleConfig.BTCETHLeverage,
                             CycleConfig.AltcoinLeverage) = ""
        /\ LET sorted == sortDecisionsByPriority(exResult.decisions)
           IN  \A k \in 1..Len(sorted) : ~CallsExchange(sorted[k].action)

\* C21 witness: a text with prose and brackets but no array of objects has
\* been extracted.
C21_Witness ==
    /\ exPc = "extracted" /\ ~ClaimHasArray(exText)
    /\ \E i \in 1..Len(exText) : exText[i] = "["
    /\ \E i \in 1..Len(exText) : exText[i] = "{"
    /\ exResult.decisions = <<FallbackDecision>>

\* C22: a call of GetBalance or GetPositions made less than 10 seconds after
\* the last successful fetch returns that fetch's value without querying the
\* venue, whatever the value was (an empty position list included); made 10
\* seconds or more after it, the call queries the venue; and a failed fetch
\* leaves the cached value as it was.  Stated of a call that follows a
\* successful call of the same operation.
C22_CachedForTenSeconds ==
    [][/\ (adLast.op = "GetPositions" /\ adLast.ok
           /\ adLast'.op = "GetPositions" /\ now' = now) =>
             /\ now - positionsCacheTime < CacheDuration =>
                   (adLast'.ok /\ adLast'.cached
                    /\ adLast'.positions.list = adLast.positions.list)
             /\ now - positionsCacheTime >= CacheDuration => ~adLast'.cached
             /\ ~adLast'.ok => cachedPositions' = cachedPositions
       /\ (adLast.op = "GetBalance" /\ adLast.ok
           /\ adLast'.op = "GetBalance" /\ now' = now) =>
             /\ now - balanceCacheTime < CacheDuration =>
                   (adLast'.ok /\ adLast'.cached
                    /\ adLast'.balance = adLast.balance)
             /\ now - balanceCacheTime >= CacheDuration => ~adLast'.cached
             /\ ~adLast'.ok => cachedBalance' = cachedBalance
      ]_vars

\* C23: an open for a side is refused, and no order is placed, whenever the
\* venue holds a non-zero position of the same symbol and side at the time of
\* the open; this holds for open_long and open_short alike, and also when
\* the read of the positions fails.
C23_NoOpenOnHeldPosition ==
    (trkLast.action \in Sides /\ trkLast.held) => (trkLast.err /\ ~trkLast.placed)

\* C30: the first-observed-at of a position is the value written first in
\* the position's lifetime and later cycles do not change it while the
\* position stays open; once the position has disappeared, the entry is gone
\* after the first cycle that follows, whether that cycle fails early or not.
C30_FirstSeenOncePerLifetime ==
    \A k \in Sides :
        /\ (trkVenue[k] > 0 /\ positionFirstSeenTime[k] # NoTime) =>
              positionFirstSeenTime[k] = trkLifeFirst[k]
        /\ (trkVenue[k] = 0 /\ trkCyclesGone[k] >= 1) =>
              positionFirstSeenTime[k] = NoTime


\* C24: a close with quantity 0 closes the full position: for a long and for
\* a short alike, the order submitted has a strictly positive size equal to
\* the quantity the venue holds, and the close fails with the no-such-position
\* error, submitting nothing, when the venue holds none.
C24_CloseZeroClosesAll ==
    (qtyCall.op = "Close" /\ qtyCall.read # "failed") =>
        IF qtyCall.held > 0
        THEN qtyResult.submitted /\ qtyResult.sz > 0 /\ qtyResult.sz = qtyCall.held
        ELSE qtyResult.err = "no position" /\ ~qtyResult.submitted

\* the smallest multiple of lotSz that is at least quantity
ClaimSmallestMultiple(quantity, lotSz) ==
    CHOOSE m \in 1..(quantity + lotSz) :
        /\ m % lotSz = 0
        /\ m >= quantity
        /\ \A k \in 1..(m - 1) : ~(k % lotSz = 0 /\ k >= quantity)

\* C25: for every positive quantity q and lot size L of the instrument,
\* FormatQuantity returns the smallest multiple of L that is at least q: a
\* multiple of L is returned unchanged and a q below L becomes one lot.
C25_SmallestMultipleOfLot ==
    qtyCall.op = "FormatQuantity" =>
        qtyResult.sz = ClaimSmallestMultiple(qtyCall.quantity, qtyCall.lotSz)


\* C26: on an open whose earlier steps succeed, when the margin of the rounded
\* quantity, rounded_quantity x mark_price / leverage, exceeds the account's
\* available balance at the time of the call, the adapter returns the
\* insufficient-margin error and sends no order; when it does not exceed that
\* balance, the adapter does not reject the open for margin.
C26_MarginCheckedOnOpen ==
    (opnCall.op = "Open" /\ opnCall.leverOk /\ opnCall.priceOk
        /\ opnCall.read # "failed") =>
        IF (opnCall.formattedQuantity \div OpenLotSz) * MarkPrice
               > opnCall.venueBalance * opnCall.leverage
        THEN opnResult.err = "margin" /\ ~opnResult.submitted
        ELSE opnResult.err # "margin"

\* the conditions of the pre-placement sanity rule as the specification
\* states them, for every value of stop-loss and take-profit
ClaimInsane(side, stopLoss, takeProfit, mark, leverage) ==
    IF side = "long"
    THEN \/ stopLoss >= mark
         \/ stopLoss * leverage <= mark * (leverage - 1)
         \/ takeProfit <= mark
         \/ stopLoss >= takeProfit
    ELSE \/ stopLoss <= mark
         \/ stopLoss * leverage >= mark * (leverage + 1)
         \/ takeProfit >= mark
         \/ stopLoss <= takeProfit

\* C27: an open is rejected without an order whenever its stop-loss and
\* take-profit fail the pre-placement sanity rule (long: stop_loss >= mark,
\* stop_loss <= mark x (1 - 1/leverage), take_profit <= mark, or
\* stop_loss >= take_profit; short: mirrored), for every value the caller
\* hands over, 0 included.
C27_InsaneStopsRejected ==
    (opnCall.op = "Open"
        /\ ClaimInsane(opnCall.side, opnCall.stopLoss, opnCall.takeProfit,
                       MarkPrice, opnCall.leverage)) =>
        (opnResult.err # "" /\ ~opnResult.submitted)


\* the ordTypes of the kind of order an update action is about, as the
\* specification states them
ClaimOwnTypes(action) ==
    IF action = "update_stop_loss" THEN {"stop_market", "stop"}
    ELSE {"take_profit_market", "take_profit"}

ClaimLaterOfSymbol(i) ==
    {j \in DOMAIN mLog : j > i /\ mLog[j].key[1] = mLog[i].key[1]}

\* C29: a monitor tick that finds a position of a symbol leaves the symbol's
\* peak entry at max(previous peak, current return), so an existing entry
\* never decreases; a successful emergency close removes the entry, and a
\* failed one keeps it.  With two positions of one symbol in the tick, each
\* finds the entry as the one before it left it.
C29_PeakIsRunningMaximum ==
    \A i \in DOMAIN mLog :
        LET e      == mLog[i]
            symbol == e.key[1]
            later  == ClaimLaterOfSymbol(i)
        IN  /\ e.exists => ClaimPeak(e) >= e.peak
            /\ IF later = {}
               THEN IF e.closed THEN symbol \notin DOMAIN peakPnLCache
                    ELSE /\ symbol \in DOMAIN peakPnLCache
                         /\ peakPnLCache[symbol] = ClaimPeak(e)
               ELSE LET n == mLog[CHOOSE j \in later : \A k \in later : j <= k]
                    IN  IF e.closed THEN ~n.exists
                        ELSE n.exists /\ n.peak = ClaimPeak(e)

\* C29 witness: a tick found the entry at 10% with the return at 6%, its
\* emergency close failed, and the entry is still 10%; and a tick whose
\* emergency close succeeded exists as well (C12_Witness).
C29_Witness ==
    \E i \in DOMAIN mLog :
        /\ mLog[i].exists /\ mLog[i].peak = 10 /\ mLog[i].current = 6
        /\ mLog[i].issued /\ ~mLog[i].closed
        /\ mLog[i].key[1] \in DOMAIN peakPnLCache
        /\ peakPnLCache[mLog[i].key[1]] = 10

\* the cap of the specification: 30, 25, 20, 15 for 0, 1, 2, 3 or more
\* open positions
ClaimCap(positionCount) ==
    IF positionCount = 0 THEN 30
    ELSE IF positionCount = 1 THEN 25
    ELSE IF positionCount = 2 THEN 20
    ELSE 15

\* C31: the symbols market data is fetched for are every held symbol plus
\* the candidates at the front of the candidate list, as many as the list
\* has but at most the cap for the number of open positions; a list of 30 or
\* more candidates with no position contributes exactly its first 30.
C31_HeldPlusCappedCandidates ==
    selLast.called =>
        LET held  == {pos[1] : pos \in selLast.positions}
            cap   == ClaimCap(Cardinality(selLast.positions))
            taken == Min(Len(selLast.coins), cap)
        IN  /\ held \subseteq selLast.symbols
            /\ selLast.symbols = held \cup {selLast.coins[i] : i \in 1..taken}
            /\ (Len(selLast.coins) >= 30 /\ selLast.positions = {}) =>
                   selLast.symbols = {selLast.coins[i] : i \in 1..30}

\* C31 witness: with three positions and more than 30 candidates, the first
\* 15 candidates and the held symbol that is no candidate are fetched.
C31_Witness ==
    /\ selLast.called
    /\ Cardinality(selLast.positions) = 3
    /\ Len(selLast.coins) > 30
    /\ selLast.symbols = (1..15) \cup {100}

\* C32: the history of cycle n holds at most three records, all of earlier
\* cycles, and whenever at least three records of earlier cycles exist and
\* the records could be read, the newest of them (that of cycle n-1 when it
\* was written) is among the records selected.
C32_HistoryHoldsThePrecedingCycle ==
    (histLast.called /\ histLast.readOk) =>
        /\ Len(histLast.history) <= 3
        /\ \A i \in DOMAIN histLast.history : histLast.history[i] < histLast.cycle
        /\ Len(histLast.earlier) >= 3 =>
              \E i \in DOMAIN histLast.history :
                  histLast.history[i] = histLast.earlier[Len(histLast.earlier)]

\* C33: one request of the adapter makes at most three attempts; an attempt
\* that meets a 5xx status or a transient transport failure, and is not the
\* third, is followed by a sleep of 2 x attempt seconds and another attempt;
\* a 4xx status and a venue-level error code end the call at once; and the
\* call that fails on its third attempt returns the error of that attempt.
C33_ThreeAttemptsBackoffAndLastError ==
    /\ Len(reqLog) <= 3
    /\ Len(reqWaits) <= Len(reqLog)
    /\ \A i \in DOMAIN reqLog :
          /\ (reqLog[i] \in {"http5xx", "transient"} /\ i < 3) =>
                /\ Len(reqWaits) >= i
                /\ reqWaits[i] = 2 * i
                /\ reqReturn.done => Len(reqLog) > i
          /\ reqLog[i] \in {"http4xx", "code"} =>
                /\ i = Len(reqLog)
                /\ Len(reqWaits) = i - 1
                /\ reqReturn.done /\ ~reqReturn.ok
                /\ reqReturn.err = reqLog[i]
    /\ (Len(reqLog) = 3 /\ reqLog[3] # "ok") =>
          /\ reqReturn.done /\ ~reqReturn.ok
          /\ reqReturn.err = reqLog[3]
          /\ Len(reqWaits) = 2

\* a call that slept 2 and 4 seconds and failed on its third attempt
C33_Witness ==
    /\ reqReturn.done
    /\ reqLog = <<"http5xx", "transient", "http5xx">>
    /\ reqWaits = <<2, 4>>

\* C34: one place-order call has the venue place at most one order.
C34_AtMostOneOrderPlaced ==
    reqCall.path = "/api/v5/trade/order" => reqOrders <= 1

\* the errors with which an open is rejected before it places its order, as
\* the claim lists them
ClaimRejections == {"margin", "stop loss", "take profit", "price", "balance"}

\* C35: an open rejected before the order is placed leaves the symbol's
\* pending and protection orders and its configured leverage as they were.
C35_RejectedOpenLeavesVenueUnchanged ==
    (ovLast.called /\ ovLast.err \in ClaimRejections) =>
        /\ ovOrders = ovLast.orders
        /\ ovLeverage = ovLast.leverage

\* the ordTypes that are a stop-loss, resp. a take-profit, order
ClaimProtection(action) ==
    IF action = "update_stop_loss" THEN {"stop_market", "stop"}
    ELSE {"take_profit_market", "take_profit"}

\* C36: a position that had a stop-loss order before update_stop_loss has
\* one after it, whether the action succeeded or failed; the same for
\* update_take_profit and take-profit orders.
C36_UpdateKeepsProtection ==
    \A action \in {"update_stop_loss", "update_take_profit"} :
        (/\ updLast.action = action
         /\ updPos # "none"
         /\ \E t \in ClaimProtection(action) : updLast.before[t] > 0) =>
            \E t \in ClaimProtection(action) : updOrders[t] > 0

\* C37: a successful partial_close with a percentage below 100 reduces the
\* position by its amount x percentage / 100 and leaves the protection
\* orders of the symbol as they were.
C37_PartialCloseKeepsProtection ==
    (pcLast.called /\ pcLast.err = "" /\ pcLast.percentage < 100) =>
        /\ pcPos.amt = pcLast.pos.amt - (pcLast.pos.amt * pcLast.percentage) \div 100
        /\ pcOrders = pcLast.orders

\* C38: the lifecycle can be repeated: the drawdown monitor of a Run that was
\* called on a stopped trader (also one stopped by an earlier Stop that has
\* returned) does not end before Stop is called again.
C38_RestartedMonitorKeepsPolling ==
    \A r \in Runs :
        (/\ properStart
         /\ runPc[r] # "idle"
         /\ \A q \in Runs : q > r => runPc[q] = "idle"
         /\ ~stopRequested) =>
            monPc[r] # "exited"

\* C39: whatever the interleaving of Close with the reader, no message is
\* sent on a subscriber channel that Close has closed.
C39_NoSendOnClosedChannel == ~csSentOnClosed

\* C40: after a reconnect the streams that were subscribed on the lost
\* connection are subscribed on the new one, and at every moment at most
\* one reader and at most one heartbeat goroutine is in its loop.
C40_ReconnectResubscribesWithOneTaskEach ==
    /\ \A k \in Conns : (k > 1 /\ csConn = k) => csStreams[k - 1] \subseteq csStreams[k]
    /\ Cardinality(ActiveReaders) <= 1
    /\ Cardinality(ActiveHeartbeats) <= 1

====
